---- MODULE Spec2Model ----
(***************************************************************************)
(* A model of STAMP's data assembly (src/src/stamp/modeling/data.py):      *)
(* the reconciliation of the clinical table, the slide table and the       *)
(* feature files on disk (filter_complete_patient_data_), the fixed-size   *)
(* bag sampling (_to_fixed_size_bag), the reading of a bag                 *)
(* (BagDataset.__getitem__) and the encoding of the ground truths          *)
(* (dataloader_from_patient_data); and of the steps of                     *)
(* train_categorical_model_ (src/src/stamp/modeling/train.py) from the     *)
(* split to the model.                                                     *)
(*                                                                         *)
(* A Python dict is a sequence of <<key, value>> items with pairwise       *)
(* distinct keys, in insertion order.                                      *)
(***************************************************************************)
EXTENDS Integers, Sequences, FiniteSets, TLC

\* ------------------------------------------------------------------ bounds

\* Rows of the slide table.
MaxSlides == 3
\* Instances of a bag handed to _to_fixed_size_bag.
MaxTiles == 3
\* Largest bag_size requested.
MaxBagSize == 3
\* Features per instance (F).
DimFeats == 1
\* Instances stored in one feature file.
MaxFileTiles == 2

PatientIds == {"P1", "P2"}
Labels == {"A", "B"}
\* Python's None; no label of the clinical table equals it.
None == "None"
GroundTruths == Labels \cup {None}
\* A feature path is the number of its row in the slide table.
\* What is at a feature path: nothing, an archive that can be read, or a
\* file that is there but cannot be read (zero bytes, truncated, not HDF5).
FileStates == {"missing", "readable", "unreadable"}
FeatValues == {0, 1}

\* ------------------------------------------------------------------ dicts

Range(seq) == {seq[i] : i \in 1..Len(seq)}

DictKeys(d) == {d[i][1] : i \in 1..Len(d)}

DictValues(d) == {d[i][2] : i \in 1..Len(d)}

DictGet(d, k) == d[CHOOSE i \in 1..Len(d) : d[i][1] = k][2]

\* d[k] = v: an existing key keeps its position, a new key goes last.
DictSet(d, k, v) ==
    IF k \in DictKeys(d)
    THEN [i \in 1..Len(d) |-> IF d[i][1] = k THEN <<k, v>> ELSE d[i]]
    ELSE Append(d, <<k, v>>)

\* {k: v for k, v in items}, also {**a, **b} as DictUpdate(a, b).
\* The keys of d stay where they are, the new keys follow in the order they
\* first come in items, and the last value given for a key is the one kept.
DictUpdate(d, items) ==
    LET last(k) == CHOOSE i \in 1..Len(items) :
                       /\ items[i][1] = k
                       /\ \A j \in (i + 1)..Len(items) : items[j][1] # k
        value(k, old) == IF \E i \in 1..Len(items) : items[i][1] = k
                         THEN items[last(k)][2] ELSE old
        new == {i \in 1..Len(items) :
                  /\ \A j \in 1..Len(d) : d[j][1] # items[i][1]
                  /\ \A j \in 1..(i - 1) : items[j][1] # items[i][1]}
        nth(k) == CHOOSE i \in new : Cardinality({j \in new : j < i}) = k - 1
    IN  [i \in 1..Len(d) |-> <<d[i][1], value(d[i][1], d[i][2])>>]
            \o [k \in 1..Cardinality(new) |->
                   <<items[nth(k)][1], items[last(items[nth(k)][1])][2]>>]

DictFromItems(items) == DictUpdate(<<>>, items)

\* All dicts with keys from K and values from V.
Dicts(K, V) ==
    UNION {{d \in [1..n -> K \X V] :
              \A i, j \in 1..n : i # j => d[i][1] # d[j][1]} :
           n \in 0..Cardinality(K)}

\* ------------------------------------------------------------------ state

VARIABLES
    patient_to_ground_truth,  \* dict PatientId -> GroundTruth | None (clinical table)
    slide_to_patient,         \* dict FeaturePath -> PatientId (slide table)
    disk,                     \* what is at each feature path of the slide table
    drop_patients_with_missing_ground_truth,
    patients,                 \* dict returned by filter_complete_patient_data_
    log,                      \* warnings emitted, in order
    ground_truths,            \* train.py: the labels handed to the split
    raised,                   \* the exception that ended the run, or "none"
    pc,
    bag,                      \* N x F tensor: a sequence of rows
    bag_size,
    bag_idxs,                 \* randperm(n_tiles)[:bag_size]
    zero_padded,              \* the bag returned by _to_fixed_size_bag
    true_count,               \* the _BagSize returned by _to_fixed_size_bag
    archives,                 \* the feature files a BagDataset reads
    ds_bags,                  \* BagDataset.bags
    ds_bag_size,              \* BagDataset.bag_size
    ds_ground_truths,         \* BagDataset.ground_truths
    index,                    \* argument of __getitem__
    files_left,               \* what `for bag_file in self.bags[index]` has yet to yield
    open_files,               \* the h5py.File objects that are open
    feats,                    \* the list __getitem__ collects the tensors in
    item,                     \* what __getitem__ returned, <<>> before it returns
    patient_labels,           \* train.py: ground_truths, one per patient of patient_to_data
    categories_arg,           \* train.py: the `categories` argument, <<>> for None
    train_patients,
    valid_patients,
    categories,               \* returned by the loader of the training split
    train_targets,            \* train_dl.dataset.ground_truths (one-hot, boolean)
    valid_targets,            \* valid_dl.dataset.ground_truths
    batches_read,             \* batches taken from train_dl
    category_counts,
    category_weights,
    error,                    \* message and arguments of the exception raised
    model,                    \* what LitVisionTransformer was constructed with, <<>> before
    clini_table,              \* the clinical table as read: columns and rows
    slide_table,              \* the slide table as read: columns and rows
    dl_caller,                \* who called dataloader_from_patient_data
    dl_batch_size,            \* DataLoader.batch_size
    dl_shuffle,               \* DataLoader's shuffle
    sampler,                  \* the indices the pass has yet to fetch, in order
    batch,                    \* the items fetched for the batch being made
    yielded,                  \* the batches the pass has yielded
    passes,                   \* passes over the loader that have ended
    todo,                     \* the indices not yet handed to a worker
    w_pc,                     \* per worker: where its __getitem__ call is
    w_index,                  \* per worker: the index it was handed
    w_files_left,             \* per worker: as files_left
    w_open,                   \* per worker: the files it has open
    w_feats,                  \* per worker: as feats
    done                      \* the items the workers returned, as they completed

trainVars == <<patient_labels, categories_arg, train_patients, valid_patients,
               categories, train_targets, valid_targets, batches_read,
               category_counts, category_weights, error, model>>

tableVars == <<clini_table, slide_table>>

loaderVars == <<dl_caller, dl_batch_size, dl_shuffle, sampler, batch, yielded,
                passes>>

workerVars == <<todo, w_pc, w_index, w_files_left, w_open, w_feats, done>>

restVars == <<tableVars, loaderVars, workerVars>>

datasetVars == <<archives, ds_bags, ds_bag_size, ds_ground_truths, index,
                 files_left, open_files, feats, item>>

vars == <<patient_to_ground_truth, slide_to_patient, disk,
          drop_patients_with_missing_ground_truth, patients, log,
          ground_truths, raised, pc, bag, bag_size, bag_idxs, zero_padded,
          true_count, datasetVars, trainVars, restVars>>

inputVars == <<patient_to_ground_truth, slide_to_patient, disk,
               drop_patients_with_missing_ground_truth>>

bagVars == <<bag, bag_size, bag_idxs, zero_padded, true_count>>

reconcileState == <<patient_to_ground_truth, slide_to_patient, disk,
                    drop_patients_with_missing_ground_truth, patients, log,
                    ground_truths>>

reconcileVars == <<patient_to_ground_truth, slide_to_patient, disk,
                   drop_patients_with_missing_ground_truth, patients, log,
                   ground_truths, raised>>

\* ------------------------------------------------------------------ reconciler

\* Mutant: only an archive that can be read counts as existing.
exists_and_readable(feature_path) == disk[feature_path] = "readable"

\* Path.exists(): true of every file that is there, whatever is in it.
exists(feature_path) == disk[feature_path] # "missing"

\* itertools.groupby(iterable, key): one <<key, group>> item per run of
\* consecutive elements with the same key.
groupby(iterable, key) ==
    LET starts == {i \in 1..Len(iterable) :
                      i = 1 \/ key[iterable[i]] # key[iterable[i - 1]]}
        nth(k) == CHOOSE i \in starts : Cardinality({j \in starts : j < i}) = k - 1
        end(k) == IF k = Cardinality(starts) THEN Len(iterable) ELSE nth(k + 1) - 1
    IN  [k \in 1..Cardinality(starts) |->
            <<key[iterable[nth(k)]], SubSeq(iterable, nth(k), end(k))>>]

\* Iterating a dict yields its keys in insertion order.
DictIter(d) == [i \in 1..Len(d) |-> d[i][1]]

patient_to_slides_of(s2p) ==
    LET key == [slide \in DictKeys(s2p) |-> DictGet(s2p, slide)]
        groups == groupby(DictIter(s2p), key)
    IN  DictFromItems([i \in 1..Len(groups) |->
                         <<groups[i][1], Range(groups[i][2])>>])

\* Mutant: the two dicts merged the other way round, None winning.
with_missing_ground_truth_last(p2gt, patient_to_slides) ==
    DictUpdate(
        p2gt,
        [i \in 1..Len(patient_to_slides) |-> <<patient_to_slides[i][1], None>>])

\* {**{patient_id: None for patient_id in patient_to_slides}, **patient_to_ground_truth}
with_missing_ground_truth(p2gt, patient_to_slides) ==
    DictUpdate(
        DictFromItems([i \in 1..Len(patient_to_slides) |->
                         <<patient_to_slides[i][1], None>>]),
        p2gt)

existing_features_for_patient(slides) ==
    {feature_path \in slides : exists(feature_path)}

PatientData(ground_truth, feature_files) ==
    [ground_truth |-> ground_truth, feature_files |-> feature_files]

\* Mutant: any patient with slides passes, on disk or not.
has_slides(patient_id, patient_to_slides) ==
    patient_id \in DictKeys(patient_to_slides)

\* The condition of the comprehension that builds `patients`: the patient
\* has slides, and the set of those on disk is not empty.
has_slides_and_features(patient_id, patient_to_slides) ==
    /\ patient_id \in DictKeys(patient_to_slides)
    /\ existing_features_for_patient(
           DictGet(patient_to_slides, patient_id)) # {}

\* The items of the comprehension that builds `patients`.
complete_items(items, patient_to_slides) ==
    LET kept == SelectSeq(items,
                    LAMBDA entry : has_slides_and_features(entry[1], patient_to_slides))
    IN  [i \in 1..Len(kept) |->
            <<kept[i][1],
              PatientData(kept[i][2],
                  existing_features_for_patient(
                      DictGet(patient_to_slides, kept[i][1])))>>]

\* Mutant: patients of the slide table are given None whatever `drop` says.
filter_never_dropping(p2gt, s2p, drop) ==
    LET patient_to_slides == patient_to_slides_of(s2p)
    IN  DictFromItems(complete_items(
            with_missing_ground_truth(p2gt, patient_to_slides),
            patient_to_slides))

filter_complete_patient_data_(p2gt, s2p, drop) ==
    LET patient_to_slides == patient_to_slides_of(s2p)
        p2gt_used == IF ~drop
                     THEN with_missing_ground_truth(p2gt, patient_to_slides)
                     ELSE p2gt
    IN  DictFromItems(complete_items(p2gt_used, patient_to_slides))

Warning(message, items) == [message |-> message, items |-> items]

\* Mutant: the operands of the second difference are swapped, so it is the
\* first difference again.
log_swapped_difference(p2gt, s2p) ==
    LET patients_without_slides == DictKeys(p2gt) \ DictValues(s2p)
        patients_without_ground_truth == DictKeys(p2gt) \ DictValues(s2p)
        slides_without_features == {slide \in DictKeys(s2p) : ~exists(slide)}
    IN  (IF patients_without_slides # {}
         THEN <<Warning("some patients have no associated slides",
                        patients_without_slides)>>
         ELSE <<>>)
        \o
        (IF patients_without_ground_truth # {}
         THEN <<Warning("some patients have no clinical information",
                        patients_without_ground_truth)>>
         ELSE <<>>)
        \o
        (IF slides_without_features # {}
         THEN <<Warning("some feature files could not be found",
                        slides_without_features)>>
         ELSE <<>>)

\* The warnings _log_patient_slide_feature_inconsitencies emits, in order.
log_patient_slide_feature_inconsitencies(p2gt, s2p) ==
    LET patients_without_slides == DictKeys(p2gt) \ DictValues(s2p)
        patients_without_ground_truth == DictValues(s2p) \ DictKeys(p2gt)
        slides_without_features == {slide \in DictKeys(s2p) : ~exists(slide)}
    IN  (IF patients_without_slides # {}
         THEN <<Warning("some patients have no associated slides",
                        patients_without_slides)>>
         ELSE <<>>)
        \o
        (IF patients_without_ground_truth # {}
         THEN <<Warning("some patients have no clinical information",
                        patients_without_ground_truth)>>
         ELSE <<>>)
        \o
        (IF slides_without_features # {}
         THEN <<Warning("some feature files could not be found",
                        slides_without_features)>>
         ELSE <<>>)

\* ------------------------------------------------------------------ bags

Min(a, b) == IF a <= b THEN a ELSE b

\* Mutant: n indices drawn with replacement.
randint(n) == [1..n -> 1..n]

\* torch.randperm(n): every permutation of the n indices (1-based here).
randperm(n) == {p \in [1..n -> 1..n] : \A i, j \in 1..n : i # j => p[i] # p[j]}

\* seq[:k] for k >= 0.
Prefix(seq, k) == SubSeq(seq, 1, Min(k, Len(seq)))

\* torch.zeros(rows, cols)
zeros(rows, cols) == [i \in 1..rows |-> [j \in 1..cols |-> 0]]

\* Mutant: the instance count of the bag returned as the true count.
to_fixed_size_bag_len(b, size, perm) ==
    LET idxs == Prefix(perm, size)
        bag_samples == [i \in 1..Len(idxs) |-> b[idxs[i]]]
    IN  [bag_idxs |-> idxs,
         zero_padded |-> bag_samples \o zeros(size - Len(bag_samples), DimFeats),
         true_count |-> Len(b)]

\* Mutant: the zero rows put before the samples instead of after them.
to_fixed_size_bag_pad_left(b, size, perm) ==
    LET idxs == Prefix(perm, size)
        bag_samples == [i \in 1..Len(idxs) |-> b[idxs[i]]]
    IN  [bag_idxs |-> idxs,
         zero_padded |-> zeros(size - Len(bag_samples), DimFeats) \o bag_samples,
         true_count |-> Min(size, Len(b))]

\* _to_fixed_size_bag with the permutation randperm drew.
to_fixed_size_bag(b, size, perm) ==
    LET idxs == Prefix(perm, size)
        bag_samples == [i \in 1..Len(idxs) |-> b[idxs[i]]]
    IN  [bag_idxs |-> idxs,
         zero_padded |-> bag_samples \o zeros(size - Len(bag_samples), DimFeats),
         true_count |-> Min(size, Len(b))]

Rows == [1..DimFeats -> FeatValues]

Bags == UNION {[1..n -> Rows] : n \in 0..MaxTiles}

\* ------------------------------------------------------------------ specification: reconciliation

SlideTables ==
    UNION {{[i \in 1..n |-> <<i, of[i]>>] : of \in [1..n -> PatientIds]} :
           n \in 0..MaxSlides}

NoError == [message |-> "", args |-> <<>>]

NoTables ==
    /\ clini_table = <<>>
    /\ slide_table = <<>>

NoLoader ==
    /\ dl_caller = ""
    /\ dl_batch_size = 0
    /\ dl_shuffle = FALSE
    /\ sampler = <<>>
    /\ batch = <<>>
    /\ yielded = <<>>
    /\ passes = 0

NoWorkers ==
    /\ todo = <<>>
    /\ w_pc = <<>>
    /\ w_index = <<>>
    /\ w_files_left = <<>>
    /\ w_open = <<>>
    /\ w_feats = <<>>
    /\ done = <<>>

NoRest == NoTables /\ NoLoader /\ NoWorkers

NoTraining ==
    /\ patient_labels = <<>>
    /\ categories_arg = <<>>
    /\ train_patients = <<>>
    /\ valid_patients = <<>>
    /\ categories = <<>>
    /\ train_targets = <<>>
    /\ valid_targets = <<>>
    /\ batches_read = 0
    /\ category_counts = <<>>
    /\ category_weights = <<>>
    /\ error = NoError
    /\ model = <<>>

NoDataset ==
    /\ archives = <<>>
    /\ ds_bags = <<>>
    /\ ds_bag_size = <<>>
    /\ ds_ground_truths = <<>>
    /\ index = 0
    /\ files_left = <<>>
    /\ open_files = {}
    /\ feats = <<>>
    /\ item = <<>>

NoBag ==
    /\ bag = <<>>
    /\ bag_size = 0
    /\ bag_idxs = <<>>
    /\ zero_padded = <<>>
    /\ true_count = 0

Init ==
    /\ patient_to_ground_truth \in Dicts(PatientIds, GroundTruths)
    /\ slide_to_patient \in SlideTables
    /\ disk \in [DictKeys(slide_to_patient) -> FileStates]
    /\ drop_patients_with_missing_ground_truth \in BOOLEAN
    /\ patients = <<>>
    /\ log = <<>>
    /\ ground_truths = <<>>
    /\ raised = "none"
    /\ pc = "start"
    /\ NoBag
    /\ NoDataset
    /\ NoTraining
    /\ NoRest

\* Mutant: the None entries are written into the mapping passed in.
FilterInPlace ==
    /\ pc = "start"
    /\ log' = log_patient_slide_feature_inconsitencies(
                  patient_to_ground_truth, slide_to_patient)
    /\ patients' = filter_complete_patient_data_(
                       patient_to_ground_truth, slide_to_patient,
                       drop_patients_with_missing_ground_truth)
    /\ patient_to_ground_truth' =
           IF drop_patients_with_missing_ground_truth
           THEN patient_to_ground_truth
           ELSE with_missing_ground_truth(
                    patient_to_ground_truth, patient_to_slides_of(slide_to_patient))
    /\ pc' = "filtered"
    /\ UNCHANGED <<slide_to_patient, disk,
                   drop_patients_with_missing_ground_truth, ground_truths,
                   raised, bagVars, datasetVars, trainVars, restVars>>

\* filter_complete_patient_data_, the logging it starts with included.
Filter ==
    /\ pc = "start"
    /\ log' = log_patient_slide_feature_inconsitencies(
                  patient_to_ground_truth, slide_to_patient)
    /\ patients' = filter_complete_patient_data_(
                       patient_to_ground_truth, slide_to_patient,
                       drop_patients_with_missing_ground_truth)
    /\ pc' = "filtered"
    /\ UNCHANGED <<inputVars, ground_truths, raised, bagVars, datasetVars, trainVars, restVars>>

\* train.py: ground_truths = [patient_to_ground_truth[patient] for patient in
\* patient_to_data], on the table as loaded; train_categorical_model_ filters
\* with drop_patients_with_missing_ground_truth=True.
StratifyLabels ==
    /\ pc = "filtered"
    /\ drop_patients_with_missing_ground_truth
    /\ IF DictKeys(patients) \subseteq DictKeys(patient_to_ground_truth)
       THEN /\ ground_truths' = [i \in 1..Len(patients) |->
                                   DictGet(patient_to_ground_truth, patients[i][1])]
            /\ raised' = raised
       ELSE /\ raised' = "KeyError"
            /\ ground_truths' = ground_truths
    /\ pc' = "labelled"
    /\ UNCHANGED <<inputVars, patients, log, bagVars, datasetVars, trainVars, restVars>>

Next == Filter \/ StratifyLabels

Spec == Init /\ [][Next]_vars

\* ------------------------------------------------------------------ claims: reconciliation

Filtered == pc # "start"

Emitted == DictKeys(patients)

\* The slides the slide table lists under a patient.
SlidesOf(patient_id) ==
    {slide_to_patient[i][1] : i \in {j \in 1..Len(slide_to_patient) :
                                       slide_to_patient[j][2] = patient_id}}

OnDisk(slide) == disk[slide] # "missing"

\* A row of the clinical table, or the None entry a patient of the slide
\* table is given when patients without ground truth are kept.
HasGroundTruthEntry(patient_id) ==
    \/ patient_id \in DictKeys(patient_to_ground_truth)
    \/ /\ ~drop_patients_with_missing_ground_truth
       /\ SlidesOf(patient_id) # {}

\* The slides of one patient are split by a slide of another patient.
NotAdjacent(patient_id) ==
    \E i, j, k \in 1..Len(slide_to_patient) :
        /\ i < j /\ j < k
        /\ slide_to_patient[i][2] = patient_id
        /\ slide_to_patient[j][2] # patient_id
        /\ slide_to_patient[k][2] = patient_id

\* C1: a patient is in the output if and only if it has a ground-truth entry,
\* is the target of at least one slide and at least one of those slides is on
\* disk, whatever the order of the slide table.
C1_IncludedIffComplete ==
    Filtered =>
        \A patient_id \in PatientIds :
            patient_id \in Emitted <=>
                /\ HasGroundTruthEntry(patient_id)
                /\ \E slide \in SlidesOf(patient_id) : OnDisk(slide)

\* C2: the feature_files of every patient in the output are exactly the
\* slides of that patient that are on disk.
C2_FeatureFilesExact ==
    Filtered =>
        \A patient_id \in Emitted :
            DictGet(patients, patient_id).feature_files =
                {slide \in SlidesOf(patient_id) : OnDisk(slide)}

\* C3: no record of the output has an empty feature_files set, and no patient
\* id is the key of two items of the output.
C3_NonEmptyAndUnique ==
    /\ \A i \in 1..Len(patients) : patients[i][2].feature_files # {}
    /\ \A i, j \in 1..Len(patients) :
           patients[i][1] = patients[j][1] => i = j

\* Two patients are emitted while a third slide row has no file on disk.
C3_Witness ==
    /\ pc = "filtered"
    /\ Len(patients) = 2
    /\ \E slide \in DictKeys(slide_to_patient) : ~OnDisk(slide)

\* C4: when patients without ground truth are kept, an emitted patient with no
\* clinical row has ground truth None and an emitted patient with a clinical
\* row has the ground truth of that row.
C4_NoneOnlyForMissingRows ==
    (Filtered /\ ~drop_patients_with_missing_ground_truth) =>
        \A i \in 1..Len(patients) :
            LET patient_id == patients[i][1]
                ground_truth == patients[i][2].ground_truth
            IN  IF \E r \in 1..Len(patient_to_ground_truth) :
                       patient_to_ground_truth[r][1] = patient_id
                THEN \E r \in 1..Len(patient_to_ground_truth) :
                         /\ patient_to_ground_truth[r][1] = patient_id
                         /\ patient_to_ground_truth[r][2] = ground_truth
                ELSE ground_truth = None

\* A patient of the slide table alone and a labelled patient are both emitted.
C4_Witness ==
    /\ pc = "filtered"
    /\ ~drop_patients_with_missing_ground_truth
    /\ \E p, q \in Emitted :
           /\ p \notin DictKeys(patient_to_ground_truth)
           /\ DictGet(patients, p).ground_truth = None
           /\ q \in DictKeys(patient_to_ground_truth)
           /\ DictGet(patients, q).ground_truth \in Labels

ExplicitNone(patient_id) ==
    \E r \in 1..Len(patient_to_ground_truth) :
        patient_to_ground_truth[r] = <<patient_id, None>>

\* C5: a patient whose clinical row holds None and who has at least one slide
\* on disk is in the output with ground truth None, whether or not patients
\* without ground truth are dropped.
C5_ExplicitNoneIncluded ==
    Filtered =>
        \A patient_id \in PatientIds :
            (/\ ExplicitNone(patient_id)
             /\ \E slide \in SlidesOf(patient_id) : OnDisk(slide))
            => /\ patient_id \in Emitted
               /\ DictGet(patients, patient_id).ground_truth = None

\* C6: when patients without ground truth are dropped, every patient of the
\* output has a clinical row, and neither the filter nor the label lookup of
\* train_categorical_model_ raises.
C6_DropKeepsOnlyClinicalRows ==
    (Filtered /\ drop_patients_with_missing_ground_truth) =>
        /\ \A i \in 1..Len(patients) :
               \E r \in 1..Len(patient_to_ground_truth) :
                   patient_to_ground_truth[r][1] = patients[i][1]
        /\ raised = "none"
        /\ pc = "labelled" => Len(ground_truths) = Len(patients)

\* A patient with a slide on disk but no clinical row was left out, another
\* patient was emitted, and the labels were looked up.
C6_Witness ==
    /\ pc = "labelled"
    /\ drop_patients_with_missing_ground_truth
    /\ Len(patients) > 0
    /\ \E patient_id \in PatientIds :
           /\ patient_id \notin DictKeys(patient_to_ground_truth)
           /\ \E slide \in SlidesOf(patient_id) : OnDisk(slide)
           /\ patient_id \notin Emitted

Warned(message) == \E i \in 1..Len(log) : log[i].message = message

C7_WarningsMatch ==
    Filtered =>
        /\ Warned("some patients have no associated slides") <=>
               \E r \in 1..Len(patient_to_ground_truth) :
                   SlidesOf(patient_to_ground_truth[r][1]) = {}
        /\ Warned("some patients have no clinical information") <=>
               \E i \in 1..Len(slide_to_patient) :
                   \A r \in 1..Len(patient_to_ground_truth) :
                       patient_to_ground_truth[r][1] # slide_to_patient[i][2]
        /\ Warned("some feature files could not be found") <=>
               \E i \in 1..Len(slide_to_patient) :
                   disk[slide_to_patient[i][1]] = "missing"
        /\ Len(log) <= 3
        /\ raised = "none"

\* C7: each of the three inconsistency classes is logged as a warning exactly
\* when its set is not empty; nothing is raised, and the clinical table, the
\* slide table and the files on disk are left as they were.
C7_WarningsOnly ==
    /\ []C7_WarningsMatch
    /\ [][inputVars' = inputVars]_vars

\* All three warnings were logged and a patient was still emitted.
C7_Witness ==
    /\ pc = "filtered"
    /\ Len(log) = 3
    /\ Len(patients) > 0

\* C8 as claimed: an archive that is there but cannot be read is in no
\* feature_files, and a patient whose only slides are such archives is left out.
C8_UnreadableTreatedAsMissing ==
    Filtered =>
        /\ \A i \in 1..Len(patients) :
               \A feature_path \in patients[i][2].feature_files :
                   disk[feature_path] = "readable"
        /\ \A patient_id \in Emitted :
               \E slide \in SlidesOf(patient_id) : disk[slide] = "readable"

\* C8, amended: the existence check only tests that a file is there. No path
\* with nothing on disk is in any feature_files, and a patient with a
\* ground-truth entry whose slides are all unreadable archives is in the
\* output with a non-empty feature_files made of those archives.
C8_UnreadableCountsAsExisting ==
    Filtered =>
        /\ \A i \in 1..Len(patients) :
               \A feature_path \in patients[i][2].feature_files :
                   disk[feature_path] # "missing"
        /\ \A patient_id \in PatientIds :
               (/\ HasGroundTruthEntry(patient_id)
                /\ SlidesOf(patient_id) # {}
                /\ \A slide \in SlidesOf(patient_id) : disk[slide] = "unreadable")
               => /\ patient_id \in Emitted
                  /\ DictGet(patients, patient_id).feature_files # {}
                  /\ DictGet(patients, patient_id).feature_files
                         \subseteq SlidesOf(patient_id)

\* A patient whose two slides are both unreadable archives was emitted.
C8_Witness ==
    /\ pc = "filtered"
    /\ \E patient_id \in Emitted :
           /\ Cardinality(SlidesOf(patient_id)) = 2
           /\ \A slide \in SlidesOf(patient_id) : disk[slide] = "unreadable"

\* ------------------------------------------------------------------ specification: fixed-size bags

NotReconciling ==
    /\ patient_to_ground_truth = <<>>
    /\ slide_to_patient = <<>>
    /\ disk = <<>>
    /\ drop_patients_with_missing_ground_truth = TRUE
    /\ patients = <<>>
    /\ log = <<>>
    /\ ground_truths = <<>>
    /\ raised = "none"

InitBag ==
    /\ NotReconciling
    /\ NoDataset
    /\ NoTraining
    /\ NoRest
    /\ bag \in Bags
    /\ bag_size \in 0..MaxBagSize
    /\ bag_idxs = <<>>
    /\ zero_padded = <<>>
    /\ true_count = 0
    /\ pc = "bag"

ToFixedSizeBag ==
    /\ pc = "bag"
    /\ \E perm \in randperm(Len(bag)) :
         LET r == to_fixed_size_bag(bag, bag_size, perm)
         IN  /\ bag_idxs' = r.bag_idxs
             /\ zero_padded' = r.zero_padded
             /\ true_count' = r.true_count
    /\ pc' = "bag_done"
    /\ UNCHANGED <<bag, bag_size, reconcileVars, datasetVars, trainVars, restVars>>

NextBag == ToFixedSizeBag

SpecBag == InitBag /\ [][NextBag]_vars

\* ------------------------------------------------------------------ claims: fixed-size bags

Sampled == pc = "bag_done"

\* C9: a bag of at least one instance, sampled to a bag_size of at least one,
\* comes back with exactly bag_size rows and the smaller of bag_size and its
\* instance count as true count.
C9_FixedSize ==
    (Sampled /\ Len(bag) >= 1 /\ bag_size >= 1) =>
        /\ Len(zero_padded) = bag_size
        /\ \A i \in 1..Len(zero_padded) : Len(zero_padded[i]) = DimFeats
        /\ true_count = IF Len(bag) < bag_size THEN Len(bag) ELSE bag_size
        /\ true_count <= bag_size

\* Three instances were sampled down to two rows.
C9_Witness ==
    /\ Sampled
    /\ bag_size = 2
    /\ Len(bag) = 3
    /\ true_count = 2
    /\ Len(zero_padded) = 2

\* C10: when the bag has at least bag_size instances, the rows returned are
\* rows of the bag at pairwise distinct indices, none is padding, and the
\* true count is bag_size.
C10_SampledWithoutReplacement ==
    (Sampled /\ Len(bag) >= bag_size) =>
        /\ Len(bag_idxs) = bag_size
        /\ Len(zero_padded) = bag_size
        /\ \A i \in 1..Len(bag_idxs) : bag_idxs[i] \in 1..Len(bag)
        /\ \A i, j \in 1..Len(bag_idxs) : bag_idxs[i] = bag_idxs[j] => i = j
        /\ \A i \in 1..Len(zero_padded) : zero_padded[i] = bag[bag_idxs[i]]
        /\ true_count = bag_size

\* Two of three instances were drawn, and not the first two in order.
C10_Witness ==
    /\ Sampled
    /\ Len(bag) = 3
    /\ bag_size = 2
    /\ bag_idxs = <<3, 1>>
    /\ zero_padded = <<bag[3], bag[1]>>
    /\ bag[1] # bag[3]

\* How many of the first n rows of a tensor equal `row`.
Occurrences(tensor, n, row) == Cardinality({i \in 1..n : tensor[i] = row})

ZeroRow == [j \in 1..DimFeats |-> 0]

\* C11: when the bag has fewer than bag_size instances, the first n rows
\* returned are the n rows of the bag in some order, each instance once, the
\* other bag_size - n rows are zero vectors of width F, and the true count is n.
C11_PaddedWithZeros ==
    (Sampled /\ Len(bag) < bag_size) =>
        /\ Len(zero_padded) = bag_size
        /\ \A row \in Rows :
               Occurrences(zero_padded, Len(bag), row) =
                   Occurrences(bag, Len(bag), row)
        /\ \A i \in (Len(bag) + 1)..bag_size : zero_padded[i] = ZeroRow
        /\ true_count = Len(bag)

\* Two instances, one of them not zero, were padded to three rows.
C11_Witness ==
    /\ Sampled
    /\ Len(bag) = 2
    /\ bag_size = 3
    /\ bag[1] # bag[2]
    /\ zero_padded = <<bag[2], bag[1], ZeroRow>>

\* ------------------------------------------------------------------ BagDataset

\* The feature files of the dataset.
Files == {1, 2}

\* The j-th instance stored in feature file f. Every stored instance is
\* different from every other and from the zero row, so a row of a bag tells
\* which file and which row of it the row was read from.
Instance(f, j) == [k \in 1..DimFeats |-> (f - 1) * MaxFileTiles + j]

\* A feature file: an HDF5 archive with an n x F dataset `feats`, an HDF5
\* archive without that dataset, or a file h5py cannot open.
Archives ==
    [kind : {"readable"}, n : 0..MaxFileTiles]
        \cup [kind : {"no_feats", "unreadable"}, n : {0}]

\* f["feats"][:] of a readable archive.
feats_of(f) == [j \in 1..archives[f].n |-> Instance(f, j)]

\* An `int | None`: <<>> is None, <<n>> is the integer n.
Optional(S) == {<<>>} \cup {<<x>> : x \in S}

\* Mutant: `is not None` in the place of the truth value.
IsNotNone(optional) == optional # <<>>

\* Python's truth value of an `int | None`.
Truthy(optional) == optional # <<>> /\ optional[1] # 0

\* torch.concat(tensors)
RECURSIVE concat(_)
concat(tensors) ==
    IF tensors = <<>> THEN <<>> ELSE Head(tensors) \o concat(Tail(tensors))

\* Tensor.float() of a row of booleans.
float(row) == [k \in 1..Len(row) |-> IF row[k] THEN 1 ELSE 0]

\* The orders in which a set can be iterated.
Orders(S) ==
    {order \in [1..Cardinality(S) -> S] :
        \A i, j \in 1..Cardinality(S) : i # j => order[i] # order[j]}

\* Two bags over the feature files, no file in both.
DatasetBags ==
    {bs \in (SUBSET Files) \X (SUBSET Files) : bs[1] \cap bs[2] = {}}

InitDataset ==
    /\ NotReconciling
    /\ NoBag
    /\ NoTraining
    /\ NoRest
    /\ archives \in [Files -> Archives]
    /\ ds_bags \in DatasetBags
    /\ ds_bag_size \in Optional(0..MaxBagSize)
    /\ ds_ground_truths = <<<<TRUE, FALSE>>, <<FALSE, TRUE>>>>
    /\ index = 0
    /\ files_left = <<>>
    /\ open_files = {}
    /\ feats = <<>>
    /\ item = <<>>
    /\ pc = "ds_idle"

datasetConfig == <<archives, ds_bags, ds_bag_size, ds_ground_truths>>

\* __getitem__(index) is entered: feats = [], the loop over the bag starts.
GetItem ==
    /\ pc = "ds_idle"
    /\ \E i \in 1..Len(ds_bags) :
         /\ index' = i
         /\ \E order \in Orders(ds_bags[i]) : files_left' = order
    /\ feats' = <<>>
    /\ pc' = "ds_loop"
    /\ UNCHANGED <<datasetConfig, open_files, item, reconcileVars, bagVars, trainVars, restVars>>

\* Mutant: a file that cannot be opened is skipped.
OpenFileOrSkip ==
    /\ pc = "ds_loop"
    /\ files_left # <<>>
    /\ IF archives[Head(files_left)].kind = "unreadable"
       THEN /\ files_left' = Tail(files_left)
            /\ UNCHANGED <<raised, pc, open_files>>
       ELSE /\ open_files' = open_files \cup {Head(files_left)}
            /\ pc' = "ds_reading"
            /\ UNCHANGED <<raised, files_left>>
    /\ UNCHANGED <<datasetConfig, index, feats, item,
                   patient_to_ground_truth, slide_to_patient, disk,
                   drop_patients_with_missing_ground_truth, patients, log,
                   ground_truths, bagVars, trainVars, restVars>>

\* `with h5py.File(bag_file, "r") as f`: the file is opened, or OSError
\* leaves __getitem__.
OpenFile ==
    /\ pc = "ds_loop"
    /\ files_left # <<>>
    /\ IF archives[Head(files_left)].kind = "unreadable"
       THEN /\ raised' = "OSError"
            /\ pc' = "ds_failed"
            /\ UNCHANGED open_files
       ELSE /\ open_files' = open_files \cup {Head(files_left)}
            /\ pc' = "ds_reading"
            /\ UNCHANGED raised
    /\ UNCHANGED <<datasetConfig, index, files_left, feats, item,
                   patient_to_ground_truth, slide_to_patient, disk,
                   drop_patients_with_missing_ground_truth, patients, log,
                   ground_truths, bagVars, trainVars, restVars>>

\* Mutant: the file is closed after the read only, not when the read raises.
ReadFeatsThenClose ==
    /\ pc = "ds_reading"
    /\ IF archives[Head(files_left)].kind = "no_feats"
       THEN /\ raised' = "KeyError"
            /\ pc' = "ds_failed"
            /\ UNCHANGED <<feats, files_left, open_files>>
       ELSE /\ feats' = Append(feats, feats_of(Head(files_left)))
            /\ files_left' = Tail(files_left)
            /\ open_files' = open_files \ {Head(files_left)}
            /\ pc' = "ds_loop"
            /\ UNCHANGED raised
    /\ UNCHANGED <<datasetConfig, index, item,
                   patient_to_ground_truth, slide_to_patient, disk,
                   drop_patients_with_missing_ground_truth, patients, log,
                   ground_truths, bagVars, trainVars, restVars>>

\* The body of the `with` block and its exit: the tensor is appended and the
\* file is closed, or KeyError leaves __getitem__ through the exit, which
\* closes the file as well.
ReadFeats ==
    /\ pc = "ds_reading"
    /\ open_files' = open_files \ {Head(files_left)}
    /\ IF archives[Head(files_left)].kind = "no_feats"
       THEN /\ raised' = "KeyError"
            /\ pc' = "ds_failed"
            /\ UNCHANGED <<feats, files_left>>
       ELSE /\ feats' = Append(feats, feats_of(Head(files_left)))
            /\ files_left' = Tail(files_left)
            /\ pc' = "ds_loop"
            /\ UNCHANGED raised
    /\ UNCHANGED <<datasetConfig, index, item,
                   patient_to_ground_truth, slide_to_patient, disk,
                   drop_patients_with_missing_ground_truth, patients, log,
                   ground_truths, bagVars, trainVars, restVars>>

\* After the loop: torch.concat(feats).float(), then the fixed-size sample
\* when a bag size is set, the whole bag otherwise. torch.concat raises
\* RuntimeError on an empty list.
ReturnItem ==
    /\ pc = "ds_loop"
    /\ files_left = <<>>
    /\ IF feats = <<>>
       THEN /\ raised' = "RuntimeError"
            /\ pc' = "ds_failed"
            /\ UNCHANGED item
       ELSE /\ IF Truthy(ds_bag_size)
               THEN \E perm \in randperm(Len(concat(feats))) :
                      LET r == to_fixed_size_bag(concat(feats), ds_bag_size[1], perm)
                      IN  item' = <<r.zero_padded, r.true_count,
                                    float(ds_ground_truths[index])>>
               ELSE item' = <<concat(feats), Len(concat(feats)),
                              float(ds_ground_truths[index])>>
            /\ pc' = "ds_returned"
            /\ UNCHANGED raised
    /\ UNCHANGED <<datasetConfig, index, files_left, open_files, feats,
                   patient_to_ground_truth, slide_to_patient, disk,
                   drop_patients_with_missing_ground_truth, patients, log,
                   ground_truths, bagVars, trainVars, restVars>>

NextDataset == GetItem \/ OpenFile \/ ReadFeats \/ ReturnItem

SpecDataset == InitDataset /\ [][NextDataset]_vars

\* ------------------------------------------------------------------ claims: BagDataset

Called == pc \in {"ds_loop", "ds_reading", "ds_failed", "ds_returned"}

RECURSIVE StoredInstances(_)
\* The number of instances stored in a set of readable feature files.
StoredInstances(files) ==
    IF files = {} THEN 0
    ELSE LET f == CHOOSE g \in files : TRUE
         IN  archives[f].n + StoredInstances(files \ {f})

\* The rows of the tensors collected, one after the other.
Collected == concat(feats)

\* C12: the bag of a patient is made of the instance rows of every feature
\* file of the patient, each row once, so that it has as many instances as the
\* files together; when a file cannot be read the access ends with an error
\* and returns nothing, whatever was read before.
C12_WholeBagOrError ==
    /\ (Called /\ \E f \in ds_bags[index] : archives[f].kind # "readable")
           => (item = <<>> /\ pc # "ds_returned")
    /\ pc = "ds_failed" => (item = <<>> /\ raised # "none")
    /\ pc = "ds_returned" =>
           /\ Len(Collected) = StoredInstances(ds_bags[index])
           /\ \A f \in ds_bags[index] : \A j \in 1..archives[f].n :
                  Cardinality({i \in 1..Len(Collected) :
                                  Collected[i] = Instance(f, j)}) = 1
           /\ item # <<>>
           /\ item[2] = IF Truthy(ds_bag_size)
                        THEN Min(ds_bag_size[1], StoredInstances(ds_bags[index]))
                        ELSE StoredInstances(ds_bags[index])
           /\ ~Truthy(ds_bag_size) => item[1] = Collected

\* The first file of a bag was read, the second could not be opened, and the
\* access ended with the error.
C12_Witness ==
    /\ pc = "ds_failed"
    /\ raised = "OSError"
    /\ Len(feats) = 1
    /\ Len(feats[1]) = 2
    /\ item = <<>>

\* ------------------------------------------------------------------ training: split and loaders

\* Patients handed to the split.
MaxPatients == 5

\* The labels in the order numpy sorts them.
LabelOrder == <<"A", "B", "C">>

\* The place of a label in the order numpy sorts by.
Rank(label) == CHOOSE r \in 1..Len(LabelOrder) : LabelOrder[r] = label

\* An order of classes: labels, none of them twice.
CategoryOrders(labels) ==
    UNION {{order \in [1..n -> labels] :
              \A i, j \in 1..n : i # j => order[i] # order[j]} :
           n \in 0..Cardinality(labels)}

RECURSIVE SumOver(_, _)
\* The sum of f over the set S.
SumOver(f, S) ==
    IF S = {} THEN 0
    ELSE LET x == CHOOSE y \in S : TRUE
         IN  f[x] + SumOver(f, S \ {x})

\* The elements of a set of integers, smallest first.
Ascending(S) ==
    [i \in 1..Cardinality(S) |->
        CHOOSE x \in S : Cardinality({y \in S : y < x}) = i - 1]

\* Entries of a `categories` list given in the configuration.
MaxCategories == 2

\* A `categories` list of the configuration: labels, repeated or not.
CategoryLists(labels) == UNION {[1..n -> labels] : n \in 0..MaxCategories}

\* How many samples each class has.
class_counts(stratify) ==
    [label \in Range(stratify) |->
        Cardinality({i \in 1..Len(stratify) : stratify[i] = label})]

\* sklearn's default test_size of 0.25: n_test = ceil(0.25 * n).
n_test_of(n) == (n + 3) \div 4

\* sklearn's allocation of n_draws samples to classes in proportion to their
\* counts: every class gets floor(count * n_draws / n), and the classes with
\* the largest remainders one more until n_draws are given out (ties drawn at
\* random). The set of the allocations it can return.
approximate_mode(counts, n_draws) ==
    LET classes == DOMAIN counts
        n == SumOver(counts, classes)
        floored == [label \in classes |-> (counts[label] * n_draws) \div n]
        remainder == [label \in classes |-> (counts[label] * n_draws) % n]
        need_to_add == n_draws - SumOver(floored, classes)
        added == {T \in SUBSET classes :
                     /\ Cardinality(T) = need_to_add
                     /\ \A a \in T : \A b \in classes \ T :
                            remainder[a] >= remainder[b]}
    IN  {[label \in classes |->
             floored[label] + IF label \in T THEN 1 ELSE 0] : T \in added}

\* Mutant: the split made without `stratify`, any n_train samples train.
train_test_split_shuffled(stratify) ==
    LET n == Len(stratify)
        n_test == n_test_of(n)
        n_train == n - n_test
    IN  IF n_train < 1 THEN {}
        ELSE {[train |-> Ascending(S), test |-> Ascending((1..n) \ S)] :
                 S \in {T \in SUBSET (1..n) : Cardinality(T) = n_train}}

\* sklearn.model_selection.train_test_split(samples, stratify=stratify), the
\* samples being 1..n: every split it can return, as ascending index
\* sequences; none when it raises ValueError (no training sample, a class
\* with one member, fewer training or test samples than classes). The
\* training samples of each class are as many as approximate_mode allots.
train_test_split(stratify) ==
    LET n == Len(stratify)
        n_test == n_test_of(n)
        n_train == n - n_test
        classes == Range(stratify)
        counts == class_counts(stratify)
        of_class(S, label) == Cardinality({i \in S : stratify[i] = label})
    IN  IF \/ n_train < 1
           \/ \E label \in classes : counts[label] < 2
           \/ n_train < Cardinality(classes)
           \/ n_test < Cardinality(classes)
        THEN {}
        ELSE {[train |-> Ascending(S), test |-> Ascending((1..n) \ S)] :
                 S \in {T \in SUBSET (1..n) :
                          \E n_i \in approximate_mode(counts, n_train) :
                              \A label \in classes :
                                  of_class(T, label) = n_i[label]}}

\* Mutant: the labels in the order they are first seen, as pandas.unique.
unique_unsorted(raw) ==
    LET firsts == Ascending({i \in 1..Len(raw) :
                                \A j \in 1..(i - 1) : raw[j] # raw[i]})
    IN  [k \in 1..Len(firsts) |-> raw[firsts[k]]]

\* np.unique(raw_ground_truths): the labels that occur, sorted, each once.
np_unique(raw) == SelectSeq(LabelOrder, LAMBDA label : label \in Range(raw))

\* Mutant: the comparison broadcast the other way round, classes by patients.
one_hot_transposed(raw, cats) ==
    [c \in 1..Len(cats) |-> [i \in 1..Len(raw) |-> raw[i] = cats[c]]]

\* raw_ground_truths.reshape(-1, 1) == categories
one_hot(raw, cats) ==
    [i \in 1..Len(raw) |-> [c \in 1..Len(cats) |-> raw[i] = cats[c]]]

\* dataloader_from_patient_data: the categories it returns and the
\* ground_truths of the dataset its loader serves.
dataloader_from_patient_data(raw_ground_truths, categories_opt) ==
    LET used == IF categories_opt # <<>> THEN categories_opt[1]
                ELSE np_unique(raw_ground_truths)
    IN  [categories |-> used, ground_truths |-> one_hot(raw_ground_truths, used)]

\* [patient_to_data[patient].ground_truth for patient in split]
labels_of(split) == [i \in 1..Len(split) |-> patient_labels[split[i]]]

\* ------------------------------------------------------------------ training: weights and gate

\* The fewest samples a category may have.
MinSamples == 16

RECURSIVE GCD(_, _)
GCD(a, b) == IF b = 0 THEN a ELSE GCD(b, a % b)

\* A float: a fraction in lowest terms, an infinity or a NaN. Rounding is
\* not modelled.
Finite(num, den) ==
    [kind |-> "finite", num |-> num \div GCD(num, den), den |-> den \div GCD(num, den)]

Inf == [kind |-> "inf", num |-> 1, den |-> 0]

NaN == [kind |-> "nan", num |-> 0, den |-> 0]

\* a / b for two non-negative integers of a tensor.
TrueDiv(a, b) ==
    IF b # 0 THEN Finite(a, b) ELSE IF a = 0 THEN NaN ELSE Inf

RECURSIVE FloatSum(_)
\* Tensor.sum() of non-negative floats.
FloatSum(xs) ==
    IF xs = <<>> THEN Finite(0, 1)
    ELSE LET x == Head(xs)
             rest == FloatSum(Tail(xs))
         IN  IF x.kind = "nan" \/ rest.kind = "nan" THEN NaN
             ELSE IF x.kind = "inf" \/ rest.kind = "inf" THEN Inf
             ELSE Finite(x.num * rest.den + rest.num * x.den, x.den * rest.den)

\* x / y for two non-negative floats.
FloatDiv(x, y) ==
    IF x.kind = "nan" \/ y.kind = "nan" THEN NaN
    ELSE IF x.kind = "inf" THEN (IF y.kind = "inf" THEN NaN ELSE Inf)
    ELSE IF y.kind = "inf" THEN Finite(0, 1)
    ELSE IF y.num = 0 THEN (IF x.num = 0 THEN NaN ELSE Inf)
    ELSE Finite(x.num * y.den, x.den * y.num)

\* ground_truths.sum(dim=0)
counts_of(targets, n_categories) ==
    [c \in 1..n_categories |->
        Cardinality({i \in 1..Len(targets) : targets[i][c]})]

RECURSIVE IntSum(_)
IntSum(xs) == IF xs = <<>> THEN 0 ELSE Head(xs) + IntSum(Tail(xs))

\* Mutant: the inverse frequencies left as they are, not divided by their sum.
weights_not_normalised(counts) ==
    [c \in 1..Len(counts) |-> TrueDiv(IntSum(counts), counts[c])]

\* (x := category_counts.sum() / category_counts) / x.sum()
weights_of(counts) ==
    LET x == [c \in 1..Len(counts) |-> TrueDiv(IntSum(counts), counts[c])]
    IN  [c \in 1..Len(counts) |-> FloatDiv(x[c], FloatSum(x))]

\* Mutant: every category is put in the dict, under the floor or not.
underpopulated_unfiltered(cats, counts) ==
    [c \in 1..Len(cats) |-> <<cats[c], counts[c]>>]

\* zip(categories, category_counts) restricted to the counts below the floor.
RECURSIVE underpopulated_items(_, _)
underpopulated_items(cats, counts) ==
    IF cats = <<>> THEN <<>>
    ELSE LET rest == underpopulated_items(Tail(cats), Tail(counts))
         IN  IF Head(counts) < MinSamples
             THEN <<<<Head(cats), Head(counts)>>>> \o rest
             ELSE rest

ValueError(message, args) ==
    [raised |-> "ValueError", error |-> [message |-> message, args |-> args]]

Passed == [raised |-> "none", error |-> NoError]

\* Mutant: `all` in the place of `any`.
category_checks_all(cats, counts) ==
    IF Len(cats) <= 1
    THEN ValueError("not enough categories to train on", <<>>)
    ELSE IF \A c \in 1..Len(counts) : counts[c] < MinSamples
    THEN ValueError(
             "some categories do not have enough samples to meaningfully train a model",
             DictFromItems(underpopulated_items(cats, counts)))
    ELSE Passed

\* Mutant: the floor checked first, whatever the number of categories.
category_checks_floor_first(cats, counts) ==
    IF \E c \in 1..Len(counts) : counts[c] < MinSamples
    THEN ValueError(
             "some categories do not have enough samples to meaningfully train a model",
             DictFromItems(underpopulated_items(cats, counts)))
    ELSE IF Len(cats) <= 1
    THEN ValueError("not enough categories to train on", <<>>)
    ELSE Passed

\* The checks of train.py between the weights and the model.
category_checks(cats, counts) ==
    IF Len(cats) <= 1
    THEN ValueError("not enough categories to train on", <<>>)
    ELSE IF \E c \in 1..Len(counts) : counts[c] < MinSamples
    THEN ValueError(
             "some categories do not have enough samples to meaningfully train a model",
             DictFromItems(underpopulated_items(cats, counts)))
    ELSE Passed

\* ------------------------------------------------------------------ train_categorical_model_

otherVars == <<reconcileState, bagVars, datasetVars, restVars>>

NotElsewhere ==
    /\ patient_to_ground_truth = <<>>
    /\ slide_to_patient = <<>>
    /\ disk = <<>>
    /\ drop_patients_with_missing_ground_truth = TRUE
    /\ patients = <<>>
    /\ log = <<>>
    /\ ground_truths = <<>>
    /\ NoBag
    /\ NoDataset

\* train_test_split(list(patient_to_data), stratify=ground_truths,
\* random_state=0); the patients are 1..n.
Split ==
    /\ pc = "split"
    /\ IF train_test_split(patient_labels) = {}
       THEN /\ raised' = "ValueError"
            /\ error' = [message |-> "train_test_split", args |-> <<>>]
            /\ pc' = "train_failed"
            /\ UNCHANGED <<train_patients, valid_patients>>
       ELSE /\ \E split \in train_test_split(patient_labels) :
                 /\ train_patients' = split.train
                 /\ valid_patients' = split.test
            /\ pc' = "loaders"
            /\ UNCHANGED <<raised, error>>
    /\ UNCHANGED <<patient_labels, categories_arg, categories, train_targets,
                   valid_targets, batches_read, category_counts,
                   category_weights, model, otherVars>>

\* The two calls of dataloader_from_patient_data: the training loader with
\* the `categories` argument, the validation loader with the categories the
\* first call returned.
MakeLoaders ==
    /\ pc = "loaders"
    /\ LET train == dataloader_from_patient_data(
                        labels_of(train_patients), categories_arg)
           valid == dataloader_from_patient_data(
                        labels_of(valid_patients), <<train.categories>>)
       IN  /\ categories' = train.categories
           /\ train_targets' = train.ground_truths
           /\ valid_targets' = valid.ground_truths
    /\ pc' = "overlap_check"
    /\ UNCHANGED <<patient_labels, categories_arg, train_patients,
                   valid_patients, batches_read, category_counts,
                   category_weights, error, model, raised, otherVars>>

\* Mutant: the overlap is not looked for.
CheckOverlapNever ==
    /\ pc = "overlap_check"
    /\ pc' = "first_batch"
    /\ UNCHANGED <<patient_labels, categories_arg, train_patients,
                   valid_patients, categories, train_targets, valid_targets,
                   batches_read, category_counts, category_weights, model,
                   raised, error, otherVars>>

\* if overlap := set(train_patients) & set(valid_patients): raise RuntimeError
CheckOverlap ==
    /\ pc = "overlap_check"
    /\ IF Range(train_patients) \cap Range(valid_patients) # {}
       THEN /\ raised' = "RuntimeError"
            /\ error' =
                   [message |-> "unreachable: unexpected overlap between training and validation set",
                    args |-> Ascending(Range(train_patients) \cap Range(valid_patients))]
            /\ pc' = "train_failed"
       ELSE /\ pc' = "first_batch"
            /\ UNCHANGED <<raised, error>>
    /\ UNCHANGED <<patient_labels, categories_arg, train_patients,
                   valid_patients, categories, train_targets, valid_targets,
                   batches_read, category_counts, category_weights, model,
                   otherVars>>

\* next(iter(train_dl)): a batch is read, or a feature file of it cannot be
\* read and the error leaves train_categorical_model_.
FirstBatch ==
    /\ pc = "first_batch"
    /\ \/ /\ batches_read' = batches_read + 1
          /\ pc' = "gate"
          /\ UNCHANGED raised
       \/ /\ raised' = "OSError"
          /\ pc' = "train_failed"
          /\ UNCHANGED batches_read
    /\ UNCHANGED <<patient_labels, categories_arg, train_patients,
                   valid_patients, categories, train_targets, valid_targets,
                   category_counts, category_weights, error, model, otherVars>>

\* Mutant: the model is constructed whatever the two checks say.
GateOpen ==
    /\ pc = "gate"
    /\ category_counts' = counts_of(train_targets, Len(categories))
    /\ category_weights' = weights_of(category_counts')
    /\ pc' = "construct"
    /\ UNCHANGED <<raised, error>>
    /\ UNCHANGED <<patient_labels, categories_arg, train_patients,
                   valid_patients, categories, train_targets, valid_targets,
                   batches_read, model, otherVars>>

\* The category weights, then the two checks on the categories.
Gate ==
    /\ pc = "gate"
    /\ category_counts' = counts_of(train_targets, Len(categories))
    /\ category_weights' = weights_of(category_counts')
    /\ LET checked == category_checks(categories, category_counts')
       IN  /\ raised' = checked.raised
           /\ error' = checked.error
           /\ pc' = IF checked.raised = "none" THEN "construct" ELSE "train_failed"
    /\ UNCHANGED <<patient_labels, categories_arg, train_patients,
                   valid_patients, categories, train_targets, valid_targets,
                   batches_read, model, otherVars>>

\* LitVisionTransformer(categories=..., category_weights=..., ...), then
\* trainer.fit and trainer.save_checkpoint.
TrainModel ==
    /\ pc = "construct"
    /\ model' = <<[categories |-> categories,
                   category_weights |-> category_weights]>>
    /\ pc' = "trained"
    /\ UNCHANGED <<patient_labels, categories_arg, train_patients,
                   valid_patients, categories, train_targets, valid_targets,
                   batches_read, category_counts, category_weights, error,
                   raised, otherVars>>

NotSplit ==
    /\ train_patients = <<>>
    /\ valid_patients = <<>>
    /\ categories = <<>>
    /\ train_targets = <<>>
    /\ valid_targets = <<>>
    /\ batches_read = 0
    /\ category_counts = <<>>
    /\ category_weights = <<>>
    /\ error = NoError
    /\ model = <<>>
    /\ raised = "none"

\* The patients of patient_to_data, a label each, before the split.
InitTrain ==
    /\ NotElsewhere
    /\ NoRest
    /\ NotSplit
    /\ patient_labels \in UNION {[1..n -> Labels] : n \in 0..MaxPatients}
    /\ categories_arg \in Optional(CategoryLists(Labels))
    /\ pc = "split"

NextTrain == Split \/ MakeLoaders \/ CheckOverlap \/ FirstBatch \/ Gate

SpecTrain == InitTrain /\ [][NextTrain]_vars

\* ------------------------------------------------------------------ specification: a planner that may be defective

\* Patients handed to a planner that may return any two sets.
MaxPlannerPatients == 3

\* What train.py would be handed by a train_test_split that does not keep
\* its contract: any patients in either set.
AnySplit ==
    /\ pc = "split"
    /\ \E train, valid \in SUBSET (1..Len(patient_labels)) :
         /\ train_patients' = Ascending(train)
         /\ valid_patients' = Ascending(valid)
    /\ pc' = "loaders"
    /\ UNCHANGED <<patient_labels, categories_arg, categories, train_targets,
                   valid_targets, batches_read, category_counts,
                   category_weights, model, raised, error, otherVars>>

InitAnySplit ==
    /\ NotElsewhere
    /\ NoRest
    /\ NotSplit
    /\ patient_labels \in UNION {[1..n -> Labels] : n \in 0..MaxPlannerPatients}
    /\ categories_arg = <<>>
    /\ pc = "split"

NextAnySplit == AnySplit \/ MakeLoaders \/ CheckOverlap \/ FirstBatch \/ Gate

SpecAnySplit == InitAnySplit /\ [][NextAnySplit]_vars

\* ------------------------------------------------------------------ specification: training populations

\* Patients of one class handed to the split: none, or enough of them for
\* the training split to hold 5, 15, 16, 20 or about 40 of them.
ClassSizes == {0, 7, 20, 22, 27, 53}

\* n times the same label.
Repeat(label, n) == [i \in 1..n |-> label]

\* The labels of patients listed class by class, from the last label to the
\* first, sizes[label] of each.
by_class(classes, sizes) ==
    LET of(r) == IF LabelOrder[r] \in classes
                 THEN Repeat(LabelOrder[r], sizes[LabelOrder[r]]) ELSE <<>>
    IN  of(3) \o of(2) \o of(1)

\* train_categorical_model_ after the split of a population of up to three
\* classes: the training patients first, as many of each class as
\* train_test_split puts in the training split, then the validation patients.
InitFit ==
    /\ NotElsewhere
    /\ NoRest
    /\ \E totals \in [1..3 -> ClassSizes] :
         LET classes == {LabelOrder[r] : r \in {q \in 1..3 : totals[q] > 0}}
             counts == [label \in classes |-> totals[Rank(label)]]
             n == SumOver(counts, classes)
         IN  /\ classes # {}
             /\ \E n_i \in approximate_mode(counts, n - n_test_of(n)) :
                  /\ patient_labels =
                         by_class(classes, n_i)
                             \o by_class(classes,
                                    [label \in classes |-> counts[label] - n_i[label]])
                  /\ train_patients = [i \in 1..(n - n_test_of(n)) |-> i]
                  /\ valid_patients =
                         [i \in 1..n_test_of(n) |-> n - n_test_of(n) + i]
    /\ categories_arg \in Optional(CategoryOrders(Range(LabelOrder))
                                   \cup CategoryLists(Range(LabelOrder)))
    /\ categories = <<>>
    /\ train_targets = <<>>
    /\ valid_targets = <<>>
    /\ batches_read = 0
    /\ category_counts = <<>>
    /\ category_weights = <<>>
    /\ error = NoError
    /\ model = <<>>
    /\ raised = "none"
    /\ pc = "loaders"

NextFit == MakeLoaders \/ CheckOverlap \/ FirstBatch \/ Gate \/ TrainModel

SpecFit == InitFit /\ [][NextFit]_vars

\* ------------------------------------------------------------------ claims: the loaders

\* Both loaders have been built.
LoadersBuilt == pc \notin {"split", "loaders"} /\ error.message # "train_test_split"

\* The ground truth of the i-th patient of a split.
GroundTruthOf(split, i) == patient_labels[split[i]]

\* The entries of a target that are set.
SetEntries(target) == {c \in 1..Len(target) : target[c]}

\* A target for every patient, exactly one entry of it set, the one at the
\* index of the patient's ground truth in `categories`.
ExactlyOneHot(split, targets) ==
    /\ Len(targets) = Len(split)
    /\ \A i \in 1..Len(targets) :
         /\ Len(targets[i]) = Len(categories)
         /\ \E c \in 1..Len(categories) :
              /\ categories[c] = GroundTruthOf(split, i)
              /\ SetEntries(targets[i]) = {c}

\* A target for every patient, an entry of it set exactly where `categories`
\* holds the patient's ground truth.
SetWhereCategoryMatches(split, targets) ==
    /\ Len(targets) = Len(split)
    /\ \A i \in 1..Len(targets) :
         /\ Len(targets[i]) = Len(categories)
         /\ SetEntries(targets[i]) =
                {c \in 1..Len(categories) :
                    categories[c] = GroundTruthOf(split, i)}

\* C13: the one-hot target of every patient a loader serves has exactly one
\* entry set, at the index of the patient's ground truth in the returned
\* categories, whether the categories were inferred or supplied.
C13_ExactlyOneEntrySet ==
    LoadersBuilt =>
        /\ ExactlyOneHot(train_patients, train_targets)
        /\ ExactlyOneHot(valid_patients, valid_targets)

\* C13: the target of every patient a loader serves has the length of the
\* returned categories and is set exactly at the indices where the categories
\* hold the patient's ground truth: one entry when the categories were
\* inferred, and with supplied categories as many entries as the ground truth
\* occurs in them, none if it does not.
C13_SetWhereCategoryMatches ==
    LoadersBuilt =>
        /\ SetWhereCategoryMatches(train_patients, train_targets)
        /\ SetWhereCategoryMatches(valid_patients, valid_targets)
        /\ categories_arg = <<>> =>
               /\ ExactlyOneHot(train_patients, train_targets)
               /\ ExactlyOneHot(valid_patients, valid_targets)
        /\ categories_arg # <<>> => categories = categories_arg[1]

\* Supplied categories that hold the ground truth of one training patient
\* once and the ground truth of another not at all: one target with one
\* entry set, one with none.
C13_Witness ==
    /\ LoadersBuilt
    /\ categories_arg # <<>>
    /\ \E i, j \in 1..Len(train_targets) :
         /\ Cardinality(SetEntries(train_targets[i])) = 1
         /\ SetEntries(train_targets[j]) = {}
         /\ Len(train_targets[j]) = 1
    /\ Len(valid_targets) > 0

\* C14: the validation targets are encoded against exactly the category array
\* the training loader returned, which is also the array the model is given;
\* inferred categories are the ground truths of the training split, sorted
\* and each once.
C14_SameCategoriesEverywhere ==
    /\ LoadersBuilt =>
         /\ SetWhereCategoryMatches(train_patients, train_targets)
         /\ SetWhereCategoryMatches(valid_patients, valid_targets)
         /\ categories_arg = <<>> =>
              /\ Range(categories) =
                     {GroundTruthOf(train_patients, i) :
                         i \in 1..Len(train_patients)}
              /\ \A c, d \in 1..Len(categories) :
                     c < d => Rank(categories[c]) < Rank(categories[d])
    /\ model # <<>> => model[1].categories = categories

\* A model trained on three inferred categories, with validation patients.
C14_Witness ==
    /\ pc = "trained"
    /\ categories_arg = <<>>
    /\ model # <<>>
    /\ Len(model[1].categories) = 3
    /\ Len(valid_targets) > 0

\* ------------------------------------------------------------------ claims: the split

\* The patients in both sets.
Overlap == Range(train_patients) \cap Range(valid_patients)

\* C15: after a split the two patient sets are disjoint or the run stops: a
\* patient in both sets raises the RuntimeError naming the overlap before a
\* batch is read and before the model is made, and the sets are left as the
\* split returned them.
C15_DisjointOrFatal ==
    /\ pc \in {"first_batch", "gate", "construct", "trained"} => Overlap = {}
    /\ batches_read > 0 \/ model # <<>> => Overlap = {}
    /\ raised = "RuntimeError" =>
         /\ Overlap # {}
         /\ error.args = Ascending(Overlap)
         /\ pc = "train_failed"
    /\ pc \notin {"split", "loaders", "overlap_check"} /\ Overlap # {} =>
         raised = "RuntimeError"

\* A split with a patient in both sets ended with the error naming it.
C15_Witness ==
    /\ pc = "train_failed"
    /\ raised = "RuntimeError"
    /\ Len(error.args) >= 1
    /\ Len(train_patients) + Len(valid_patients) > Len(patient_labels)

\* The patients of a class in a sequence of patients.
OfClass(split, label) ==
    Cardinality({i \in 1..Len(split) : patient_labels[split[i]] = label})

\* A split has been made.
SplitMade == pc \notin {"split"} /\ error.message # "train_test_split"

\* C16: the split is stratified: for every class, its share of the training
\* set and its share of the validation set differ from its share of all
\* patients by less than one patient.
C16_Stratified ==
    SplitMade =>
        /\ Range(train_patients) \cup Range(valid_patients) =
               1..Len(patient_labels)
        /\ \A label \in Range(patient_labels) :
             LET n == Len(patient_labels)
                 count == OfClass([i \in 1..n |-> i], label)
                 in_train == OfClass(train_patients, label) * n
                 in_valid == OfClass(valid_patients, label) * n
             IN  /\ in_train - count * Len(train_patients) < n
                 /\ count * Len(train_patients) - in_train < n
                 /\ in_valid - count * Len(valid_patients) < n
                 /\ count * Len(valid_patients) - in_valid < n

\* Five patients of two classes have been split.
C16_Witness ==
    /\ pc = "loaders"
    /\ Len(patient_labels) >= 5
    /\ Cardinality(Range(patient_labels)) = 2
    /\ Len(train_patients) = 3
    /\ Len(valid_patients) = 2

\* ------------------------------------------------------------------ claims: weights and gate

\* The weights and the two checks have been evaluated.
GateDone ==
    \/ pc \in {"construct", "trained"}
    \/ /\ pc = "train_failed"
       /\ raised = "ValueError"
       /\ error.message # "train_test_split"

\* The training patients whose target has the entry of category c set.
CountInTrainingSplit(c) ==
    Cardinality({i \in 1..Len(train_targets) : train_targets[i][c]})

\* C17: for category counts that are all positive, the weight of a category
\* is (sum of counts / its count) over the sum of these ratios: the weights
\* are finite, sum to 1, and weight times count is the same for every
\* category.
C17_WeightsNormalisedInverseFrequency ==
    (GateDone /\ \A c \in 1..Len(category_counts) : category_counts[c] > 0) =>
        /\ Len(category_weights) = Len(category_counts)
        /\ \A c \in 1..Len(category_counts) :
             /\ category_counts[c] = CountInTrainingSplit(c)
             /\ category_weights[c].kind = "finite"
             /\ category_weights[c].num > 0
        /\ Len(category_counts) > 0 => FloatSum(category_weights) = Finite(1, 1)
        /\ \A a, b \in 1..Len(category_counts) :
             category_weights[a].num * category_counts[a] * category_weights[b].den
                 = category_weights[b].num * category_counts[b] * category_weights[a].den
        /\ \A c \in 1..Len(category_counts) :
             category_weights[c] =
                 FloatDiv(
                     Finite(IntSum(category_counts), category_counts[c]),
                     FloatSum([d \in 1..Len(category_counts) |->
                                  Finite(IntSum(category_counts), category_counts[d])]))

\* A model given the weights 5/11, 4/11 and 2/11 of the counts 16, 20, 40.
C17_Witness ==
    /\ pc = "trained"
    /\ category_counts = <<16, 20, 40>>
    /\ category_weights = <<Finite(5, 11), Finite(4, 11), Finite(2, 11)>>
    /\ model[1].category_weights = category_weights

UnderpopulatedRaised ==
    /\ raised = "ValueError"
    /\ error.message =
           "some categories do not have enough samples to meaningfully train a model"

NotEnoughCategoriesRaised ==
    /\ raised = "ValueError"
    /\ error.message = "not enough categories to train on"

SomeCountBelowFloor ==
    \E c \in 1..Len(category_counts) : category_counts[c] < MinSamples

\* C18: the error about under-populated categories is raised if and only if
\* the count of some category in the training split is below 16, whatever the
\* categories and counts, a single category included.
C18_RaisedIffSomeCountBelowFloor ==
    GateDone => (UnderpopulatedRaised <=> SomeCountBelowFloor)

\* C18: the error about under-populated categories is raised if and only if
\* there are at least two categories and the count of one of them in the
\* training split is below 16; with a single category below 16 the error
\* raised is the one about too few categories.
C18_RaisedIffTwoCategoriesAndSomeCountBelowFloor ==
    /\ GateDone =>
         (UnderpopulatedRaised <=> (Len(categories) >= 2 /\ SomeCountBelowFloor))
    /\ (GateDone /\ Len(categories) = 1 /\ SomeCountBelowFloor) =>
         NotEnoughCategoriesRaised
    /\ UnderpopulatedRaised => pc = "train_failed" /\ model = <<>>

\* A single category with five training patients: the error raised is the
\* one about too few categories.
C18_Witness ==
    /\ pc = "train_failed"
    /\ Len(categories) = 1
    /\ category_counts = <<5>>
    /\ NotEnoughCategoriesRaised

\* C19: the error about too few categories is raised if and only if the
\* categories used for training are fewer than two different ones.
C19_RaisedIffFewerThanTwoDistinct ==
    GateDone =>
        (NotEnoughCategoriesRaised <=> Cardinality(Range(categories)) < 2)

\* C19: the error about too few categories is raised if and only if the
\* category array used for training has fewer than two entries, a category
\* given twice counting twice.
C19_RaisedIffFewerThanTwoEntries ==
    /\ GateDone => (NotEnoughCategoriesRaised <=> Len(categories) < 2)
    /\ NotEnoughCategoriesRaised => pc = "train_failed" /\ model = <<>>

\* A single category with enough training patients is refused.
C19_Witness ==
    /\ pc = "train_failed"
    /\ NotEnoughCategoriesRaised
    /\ Len(categories) = 1
    /\ category_counts[1] >= MinSamples

\* C20: the error about under-populated categories names exactly the
\* categories whose count in the training split is below 16, each with its
\* count, and no category with 16 or more.
C20_NamesExactlyTheUnderpopulated ==
    UnderpopulatedRaised =>
        /\ DictKeys(error.args) =
               {categories[c] : c \in {d \in 1..Len(categories) :
                                          category_counts[d] < MinSamples}}
        /\ \A i \in 1..Len(error.args) :
             /\ error.args[i][2] < MinSamples
             /\ \E c \in 1..Len(categories) :
                  /\ categories[c] = error.args[i][1]
                  /\ category_counts[c] = error.args[i][2]
                  /\ CountInTrainingSplit(c) = error.args[i][2]
        /\ \A i, j \in 1..Len(error.args) :
             i # j => error.args[i][1] # error.args[j][1]

\* The counts 20, 5, 40 over the categories A, B, C name B only.
C20_Witness ==
    /\ UnderpopulatedRaised
    /\ categories = <<"A", "B", "C">>
    /\ category_counts = <<20, 5, 40>>
    /\ error.args = <<<<"B", 5>>>>

\* ------------------------------------------------------------------ claims: bag size and open files

C30_OneOpenFileNoneLeft ==
    /\ Cardinality(open_files) <= 1
    /\ pc = "ds_reading" => open_files = {Head(files_left)}
    /\ pc \in {"ds_idle", "ds_loop", "ds_returned", "ds_failed"} =>
           open_files = {}

\* The second file of a bag was opened and had no `feats`: the call failed
\* after a file had been read, and nothing is open.
C30_Witness ==
    /\ pc = "ds_failed"
    /\ raised = "KeyError"
    /\ Len(feats) = 1
    /\ Cardinality(ds_bags[index]) = 2
    /\ open_files = {}

\* ------------------------------------------------------------------ tables

\* Rows of a table.
MaxRows == 2

\* The arguments patient_label, ground_truth_label and filename_label.
patient_label == "PATIENT"

ground_truth_label == "GROUND_TRUTH"

filename_label == "FILENAME"

\* A path is the sequence of its components: a.h5 is <<"a.h5">> and ./a.h5
\* is <<".", "a.h5">>.
feature_dir == <<"feats">>

Filenames == {<<"a.h5">>, <<".", "a.h5">>, <<"b.h5">>}

\* The rows a table with these columns can hold: a value for every column.
Rows_of(columns) ==
    {[c \in columns |->
         IF c = patient_label THEN patient
         ELSE IF c = ground_truth_label THEN ground_truth
         ELSE filename] :
     patient \in PatientIds, ground_truth \in Labels, filename \in Filenames}

\* The tables _read_table can return with columns among `labels`: a
\* DataFrame is its columns and its rows.
Tables(labels) ==
    UNION {
        UNION {[columns : {columns}, rows : [1..n -> Rows_of(columns)]] :
               n \in 0..MaxRows} :
        columns \in SUBSET labels}

\* What a call returns or raises.
Returned(result) == [raised |-> "none", error |-> NoError, result |-> result]

Raised(exception, message, args) ==
    [raised |-> exception, error |-> [message |-> message, args |-> args],
     result |-> <<>>]

\* The values of a column that more than one row holds.
duplicated(df, label) ==
    {df.rows[i][label] : i \in {j \in 1..Len(df.rows) :
        \E k \in 1..Len(df.rows) : k # j /\ df.rows[k][label] = df.rows[j][label]}}

\* Mutant: set_index without verify_integrity.
set_index_unverified(df, label) ==
    IF label \notin df.columns
    THEN Raised("KeyError", "None of [label] are in the columns", <<label>>)
    ELSE Returned([index |-> [i \in 1..Len(df.rows) |-> df.rows[i][label]],
                   columns |-> df.columns \ {label},
                   rows |-> df.rows])

\* DataFrame.set_index(label, verify_integrity=True): KeyError when the
\* column is not there, ValueError when a value of it is repeated.
set_index(df, label) ==
    IF label \notin df.columns
    THEN Raised("KeyError", "None of [label] are in the columns", <<label>>)
    ELSE IF duplicated(df, label) # {}
    THEN Raised("ValueError", "Index has duplicate keys", <<duplicated(df, label)>>)
    ELSE Returned([index |-> [i \in 1..Len(df.rows) |-> df.rows[i][label]],
                   columns |-> df.columns \ {label},
                   rows |-> df.rows])

\* indexed[label].items(), also .to_dict(): KeyError when the column is not
\* there.
column_items(indexed, label) ==
    IF label \notin indexed.columns
    THEN Raised("KeyError", label, <<label>>)
    ELSE Returned(DictFromItems(
             [i \in 1..Len(indexed.rows) |->
                 <<indexed.index[i], indexed.rows[i][label]>>]))

\* patient_to_ground_truth_from_clini_table_ on the table read.
patient_to_ground_truth_from_clini_table_(clini_df) ==
    LET indexed == set_index(clini_df, patient_label)
        items == column_items(indexed.result, ground_truth_label)
        key_error == IF indexed.raised = "KeyError" THEN indexed ELSE items
    IN  IF indexed.raised = "none" /\ items.raised = "none" THEN items
        ELSE IF indexed.raised \notin {"none", "KeyError"} THEN indexed
        ELSE IF patient_label \notin clini_df.columns
        THEN Raised("ValueError", "was not found in clini table",
                    <<patient_label, clini_df.columns>>)
        ELSE IF ground_truth_label \notin clini_df.columns
        THEN Raised("ValueError", "was not found in clini table",
                    <<ground_truth_label, clini_df.columns>>)
        ELSE key_error

\* feature_dir / k: the components of both, a "." among them dropped.
FeaturePath(k) == feature_dir \o SelectSeq(k, LAMBDA component : component # ".")

\* slide_to_patient_from_slide_table_ on the table read.
slide_to_patient_from_slide_table_(slide_df) ==
    LET indexed == set_index(slide_df, filename_label)
        items == column_items(indexed.result, patient_label)
    IN  IF indexed.raised # "none" THEN indexed
        ELSE IF items.raised # "none" THEN items
        ELSE Returned(DictFromItems(
                 [i \in 1..Len(items.result) |->
                     <<FeaturePath(items.result[i][1]), items.result[i][2]>>]))

\* ------------------------------------------------------------------ specification: loading the tables

NotTraining ==
    /\ NoTraining
    /\ NoLoader
    /\ NoWorkers
    /\ NoBag
    /\ NoDataset
    /\ disk = <<>>
    /\ drop_patients_with_missing_ground_truth = TRUE
    /\ patients = <<>>
    /\ log = <<>>
    /\ ground_truths = <<>>

InitTables ==
    /\ NotTraining
    /\ clini_table \in Tables({patient_label, ground_truth_label})
    /\ slide_table \in Tables({patient_label, filename_label})
    /\ patient_to_ground_truth = <<>>
    /\ slide_to_patient = <<>>
    /\ raised = "none"
    /\ pc = "load_clini"

\* train.py: patient_to_ground_truth = patient_to_ground_truth_from_clini_table_(...)
LoadCliniTable ==
    /\ pc = "load_clini"
    /\ LET call == patient_to_ground_truth_from_clini_table_(clini_table)
       IN  /\ raised' = call.raised
           /\ error' = call.error
           /\ patient_to_ground_truth' = call.result
           /\ pc' = IF call.raised = "none" THEN "load_slide" ELSE "clini_failed"
    /\ UNCHANGED <<slide_to_patient, disk,
                   drop_patients_with_missing_ground_truth, patients, log,
                   ground_truths, bagVars, datasetVars, patient_labels,
                   categories_arg, train_patients, valid_patients, categories,
                   train_targets, valid_targets, batches_read, category_counts,
                   category_weights, model, restVars>>

\* train.py: slide_to_patient = slide_to_patient_from_slide_table_(...)
LoadSlideTable ==
    /\ pc = "load_slide"
    /\ LET call == slide_to_patient_from_slide_table_(slide_table)
       IN  /\ raised' = call.raised
           /\ error' = call.error
           /\ slide_to_patient' = call.result
           /\ pc' = IF call.raised = "none" THEN "start" ELSE "slide_failed"
    /\ UNCHANGED <<patient_to_ground_truth, disk,
                   drop_patients_with_missing_ground_truth, patients, log,
                   ground_truths, bagVars, datasetVars, patient_labels,
                   categories_arg, train_patients, valid_patients, categories,
                   train_targets, valid_targets, batches_read, category_counts,
                   category_weights, model, restVars>>

NextTables == LoadCliniTable \/ LoadSlideTable

SpecTables == InitTables /\ [][NextTables]_vars

\* ------------------------------------------------------------------ claims: loading the tables

\* Two rows of the table hold the same value in the column.
Repeated(df, label) ==
    /\ label \in df.columns
    /\ \E i, j \in 1..Len(df.rows) : i # j /\ df.rows[i][label] = df.rows[j][label]

CliniTableLoaded == pc \in {"load_slide", "start", "slide_failed"}

SlideTableLoadEnded == pc \in {"start", "slide_failed"}

\* Two rows of the slide table name the same feature file.
OneSlideTwice ==
    /\ filename_label \in slide_table.columns
    /\ \E i, j \in 1..Len(slide_table.rows) :
         /\ i # j
         /\ FeaturePath(slide_table.rows[i][filename_label])
                = FeaturePath(slide_table.rows[j][filename_label])

\* C22: a clinical table with a repeated patient id, and a slide table that
\* lists one slide twice, fail to load with an error and no mapping is
\* returned; a mapping in which the last of the rows has won is never made.
C22_OneSlideTwiceIsFatal ==
    /\ (pc # "load_clini" /\ Repeated(clini_table, patient_label)) =>
           /\ pc = "clini_failed"
           /\ patient_to_ground_truth = <<>>
    /\ (SlideTableLoadEnded /\ OneSlideTwice) =>
           /\ pc = "slide_failed"
           /\ slide_to_patient = <<>>
    /\ pc = "start" => Len(slide_to_patient) = Len(slide_table.rows)

\* C22: a clinical table with a repeated patient id, and a slide table with a
\* filename repeated letter by letter, fail to load with ValueError and no
\* mapping is returned; the clinical mapping has an item for every row, and
\* the slide mapping an item for the feature path of every row, which two
\* rows that spell one file differently share.
C22_RepeatedKeyIsFatal ==
    /\ (pc # "load_clini" /\ Repeated(clini_table, patient_label)) =>
           /\ pc = "clini_failed"
           /\ raised = "ValueError"
           /\ error.message = "Index has duplicate keys"
           /\ patient_to_ground_truth = <<>>
           /\ slide_to_patient = <<>>
    /\ (SlideTableLoadEnded /\ Repeated(slide_table, filename_label)) =>
           /\ pc = "slide_failed"
           /\ raised = "ValueError"
           /\ error.message = "Index has duplicate keys"
           /\ slide_to_patient = <<>>
    /\ CliniTableLoaded =>
           /\ Len(patient_to_ground_truth) = Len(clini_table.rows)
           /\ \A i \in 1..Len(clini_table.rows) :
                  patient_to_ground_truth[i] =
                      <<clini_table.rows[i][patient_label],
                        clini_table.rows[i][ground_truth_label]>>
    /\ pc = "start" =>
           \A i \in 1..Len(slide_table.rows) :
               \E j \in 1..Len(slide_to_patient) :
                   slide_to_patient[j][1] =
                       FeaturePath(slide_table.rows[i][filename_label])

\* The clinical table was loaded, and the slide table, which lists one
\* filename under two patients, was refused.
C22_Witness ==
    /\ pc = "slide_failed"
    /\ raised = "ValueError"
    /\ Len(patient_to_ground_truth) = 2
    /\ slide_table.columns = {patient_label, filename_label}
    /\ Len(slide_table.rows) = 2
    /\ slide_table.rows[1][filename_label] = slide_table.rows[2][filename_label]
    /\ slide_table.rows[1][patient_label] # slide_table.rows[2][patient_label]
    /\ slide_to_patient = <<>>

\* The error is one about a column, and the column it names is one of these.
ErrorNamesOneOf(columns) ==
    /\ raised = "KeyError" \/ error.message = "was not found in clini table"
    /\ error.args[1] \in columns

\* The error lists the columns of the table.
ErrorListsColumnsOf(df) ==
    /\ error.message = "was not found in clini table"
    /\ error.args[2] = df.columns

\* C23: when a required column is absent from the clinical table or from the
\* slide table, loading fails with an error that names the missing column
\* and lists the columns the table has.
C23_MissingColumnNamedAndColumnsListed ==
    /\ (pc # "load_clini"
            /\ {patient_label, ground_truth_label} \ clini_table.columns # {}) =>
           /\ pc = "clini_failed"
           /\ ErrorNamesOneOf({patient_label, ground_truth_label} \ clini_table.columns)
           /\ ErrorListsColumnsOf(clini_table)
    /\ (SlideTableLoadEnded
            /\ {patient_label, filename_label} \ slide_table.columns # {}) =>
           /\ pc = "slide_failed"
           /\ ErrorNamesOneOf({patient_label, filename_label} \ slide_table.columns)
           /\ ErrorListsColumnsOf(slide_table)

\* ------------------------------------------------------------------ specification: constructing a BagDataset

\* Bags handed to the constructor of a BagDataset.
MaxBags == 2

NotLoading ==
    /\ NotReconciling
    /\ NoBag
    /\ NoTraining
    /\ NoRest

\* BagDataset(bags=..., bag_size=..., ground_truths=...) before
\* __post_init__: any number of bags, any number of ground-truth rows.
InitConstruct ==
    /\ NotLoading
    /\ archives \in [Files -> {a \in Archives : a.kind = "readable"}]
    /\ ds_bags \in UNION {[1..n -> SUBSET Files] : n \in 0..MaxBags}
    /\ ds_bag_size \in Optional({1})
    /\ ds_ground_truths \in
           UNION {[1..n -> {<<TRUE, FALSE>>, <<FALSE, TRUE>>}] : n \in 0..MaxBags}
    /\ index = 0
    /\ files_left = <<>>
    /\ open_files = {}
    /\ feats = <<>>
    /\ item = <<>>
    /\ pc = "ds_new"

\* Mutant: __post_init__ without the comparison.
PostInitUnchecked ==
    /\ pc = "ds_new"
    /\ pc' = "ds_idle"
    /\ UNCHANGED <<raised, error, datasetVars, reconcileState, bagVars,
                   patient_labels, categories_arg, train_patients,
                   valid_patients, categories, train_targets, valid_targets,
                   batches_read, category_counts, category_weights, model,
                   restVars>>

\* __post_init__: ValueError unless there are as many ground truths as bags.
PostInit ==
    /\ pc = "ds_new"
    /\ IF Len(ds_bags) # Len(ds_ground_truths)
       THEN /\ raised' = "ValueError"
            /\ error' = [message |-> "the number of ground truths has to match the number of bags",
                         args |-> <<>>]
            /\ pc' = "ds_new_failed"
       ELSE /\ pc' = "ds_idle"
            /\ UNCHANGED <<raised, error>>
    /\ UNCHANGED <<datasetVars, reconcileState, bagVars,
                   patient_labels, categories_arg, train_patients,
                   valid_patients, categories, train_targets, valid_targets,
                   batches_read, category_counts, category_weights, model,
                   restVars>>

NextConstruct == PostInit \/ GetItem \/ OpenFile \/ ReadFeats \/ ReturnItem

SpecConstruct == InitConstruct /\ [][NextConstruct]_vars

\* ------------------------------------------------------------------ claims: constructing a BagDataset

\* The instances stored in the files of a bag.
InstancesOf(files) ==
    {Instance(f, j) : f \in files, j \in 1..MaxFileTiles}

\* C28: a BagDataset whose bags and ground-truth rows differ in number is
\* refused by its constructor with ValueError; a BagDataset that exists has
\* one ground-truth row per bag, and item i is made of the instances of
\* bags[i] and of ground_truths[i].
C28_OneGroundTruthPerBag ==
    /\ (pc # "ds_new" /\ Len(ds_bags) # Len(ds_ground_truths)) =>
           /\ pc = "ds_new_failed"
           /\ raised = "ValueError"
           /\ index = 0
           /\ item = <<>>
    /\ pc = "ds_new_failed" => Len(ds_bags) # Len(ds_ground_truths)
    /\ pc \notin {"ds_new", "ds_new_failed"} =>
           Len(ds_bags) = Len(ds_ground_truths)
    /\ pc = "ds_returned" =>
           /\ index \in 1..Len(ds_ground_truths)
           /\ item[3] = float(ds_ground_truths[index])
           /\ \A i \in 1..item[2] : item[1][i] \in InstancesOf(ds_bags[index])
           /\ item[2] <= StoredInstances(ds_bags[index])

\* Two bags and one ground-truth row: the constructor raised.
C28_Witness ==
    /\ pc = "ds_new_failed"
    /\ raised = "ValueError"
    /\ Len(ds_bags) = 2
    /\ Len(ds_ground_truths) = 1

\* ------------------------------------------------------------------ specification: a loader

\* Largest batch_size.
MaxBatchSize == 2

\* Passes made over a loader.
MaxPasses == 2

\* The bag_size, batch_size and shuffle dataloader_from_patient_data is
\* called with: by train.py for the training loader (the configured bag_size
\* and batch_size, shuffled) and for the validation loader (bag_size None,
\* batch_size 1, not shuffled), or by any other caller.
LoaderArguments ==
    {[caller |-> "train_dl", bag_size |-> <<n>>, batch_size |-> b, shuffle |-> TRUE] :
         n \in 0..MaxBagSize, b \in 1..MaxBatchSize}
    \cup {[caller |-> "valid_dl", bag_size |-> <<>>, batch_size |-> 1, shuffle |-> FALSE]}
    \cup {[caller |-> "other", bag_size |-> size, batch_size |-> b, shuffle |-> sh] :
             size \in Optional(0..MaxBagSize), b \in 1..MaxBatchSize, sh \in BOOLEAN}

\* The loader dataloader_from_patient_data returned, over a dataset of two
\* patients.
InitLoader ==
    /\ NotReconciling
    /\ NoBag
    /\ NoTraining
    /\ NoTables
    /\ NoWorkers
    /\ archives \in [Files -> Archives]
    /\ ds_bags \in DatasetBags
    /\ ds_ground_truths = <<<<TRUE, FALSE>>, <<FALSE, TRUE>>>>
    /\ \E arguments \in LoaderArguments :
         /\ dl_caller = arguments.caller
         /\ ds_bag_size = arguments.bag_size
         /\ dl_batch_size = arguments.batch_size
         /\ dl_shuffle = arguments.shuffle
    /\ sampler = <<>>
    /\ batch = <<>>
    /\ yielded = <<>>
    /\ passes = 0
    /\ index = 0
    /\ files_left = <<>>
    /\ open_files = {}
    /\ feats = <<>>
    /\ item = <<>>
    /\ pc = "dl_idle"

\* Mutant: the indices drawn with replacement.
sampler_with_replacement(n, shuffle) ==
    IF shuffle THEN randint(n) ELSE {[i \in 1..n |-> i]}

\* The orders in which a pass fetches the indices: RandomSampler's
\* permutation when shuffling, SequentialSampler's range otherwise.
sampler_orders(n, shuffle) ==
    IF shuffle THEN randperm(n) ELSE {[i \in 1..n |-> i]}

notLoaderVars == <<reconcileState, bagVars, trainVars, tableVars, workerVars>>

loaderConfig == <<dl_caller, dl_batch_size, dl_shuffle>>

\* iter(dataloader): a pass starts.
StartPass ==
    /\ pc = "dl_idle"
    /\ passes < MaxPasses
    /\ sampler' \in sampler_orders(Len(ds_bags), dl_shuffle)
    /\ batch' = <<>>
    /\ yielded' = <<>>
    /\ pc' = "dl_fetch"
    /\ UNCHANGED <<loaderConfig, passes, datasetVars, raised, notLoaderVars>>

\* dataset[i] is called for the next index of the batch.
Fetch ==
    /\ pc = "dl_fetch"
    /\ sampler # <<>>
    /\ Len(batch) < dl_batch_size
    /\ index' = Head(sampler)
    /\ sampler' = Tail(sampler)
    /\ \E order \in Orders(ds_bags[Head(sampler)]) : files_left' = order
    /\ feats' = <<>>
    /\ item' = <<>>
    /\ pc' = "ds_loop"
    /\ UNCHANGED <<loaderConfig, batch, yielded, passes, datasetConfig,
                   open_files, raised, notLoaderVars>>

\* The item __getitem__ returned joins the batch.
Collect ==
    /\ pc = "ds_returned"
    /\ batch' = Append(batch, item)
    /\ pc' = "dl_fetch"
    /\ UNCHANGED <<loaderConfig, sampler, yielded, passes, datasetVars, raised,
                   notLoaderVars>>

\* Mutant: the bags are put in one batch whatever their sizes.
CollateAnySizes ==
    /\ pc = "dl_fetch"
    /\ batch # <<>>
    /\ Len(batch) = dl_batch_size \/ sampler = <<>>
    /\ yielded' = Append(yielded, batch)
    /\ batch' = <<>>
    /\ UNCHANGED <<raised, pc>>
    /\ UNCHANGED <<loaderConfig, sampler, passes, datasetVars, notLoaderVars>>

\* default_collate: the batch is full, or the indices have run out; the
\* bags are stacked, which raises RuntimeError unless they have the same
\* number of rows, and the batch is yielded.
Collate ==
    /\ pc = "dl_fetch"
    /\ batch # <<>>
    /\ Len(batch) = dl_batch_size \/ sampler = <<>>
    /\ IF \A i, j \in 1..Len(batch) : Len(batch[i][1]) = Len(batch[j][1])
       THEN /\ yielded' = Append(yielded, batch)
            /\ batch' = <<>>
            /\ UNCHANGED <<raised, pc>>
       ELSE /\ raised' = "RuntimeError"
            /\ pc' = "dl_failed"
            /\ UNCHANGED <<yielded, batch>>
    /\ UNCHANGED <<loaderConfig, sampler, passes, datasetVars, notLoaderVars>>

\* StopIteration: the pass ends.
EndPass ==
    /\ pc = "dl_fetch"
    /\ sampler = <<>>
    /\ batch = <<>>
    /\ passes' = passes + 1
    /\ pc' = "dl_idle"
    /\ UNCHANGED <<loaderConfig, sampler, batch, yielded, datasetVars, raised,
                   notLoaderVars>>

NextLoader ==
    \/ StartPass \/ Fetch \/ OpenFile \/ ReadFeats \/ ReturnItem
    \/ Collect \/ Collate \/ EndPass

SpecLoader == InitLoader /\ [][NextLoader]_vars

\* ------------------------------------------------------------------ claims: a loader

\* The loader is in full-bag mode by its argument.
FullBagMode == ds_bag_size = <<>>

\* C24: a loader in full-bag mode (bag_size None) has batch size 1, so that
\* no loader made by dataloader_from_patient_data puts two full bags of
\* different instance counts in one batch.
C24_FullBagModeHasBatchSizeOne ==
    FullBagMode => dl_batch_size = 1

\* C24: the validation loader of train.py is in full-bag mode with batch size
\* 1; dataloader_from_patient_data accepts any batch size with bag_size None
\* (or 0), and then a batch of bags with different instance counts is not
\* yielded: its collation raises RuntimeError and ends the pass. The bags of
\* every batch that is yielded have the same number of rows.
C24_UnequalBagsAreNotCollated ==
    /\ dl_caller = "valid_dl" => (FullBagMode /\ dl_batch_size = 1)
    /\ \A b \in 1..Len(yielded) : \A i, j \in 1..Len(yielded[b]) :
           Len(yielded[b][i][1]) = Len(yielded[b][j][1])
    /\ pc = "dl_failed" =>
           /\ raised = "RuntimeError"
           /\ dl_batch_size > 1
           /\ ds_bag_size = <<>> \/ ds_bag_size = <<0>>
           /\ dl_caller # "valid_dl"
           /\ \E i, j \in 1..Len(batch) : Len(batch[i][1]) # Len(batch[j][1])

\* A loader made with bag_size None and batch size 2: the full bags of its
\* two patients differ in size and their collation raised.
C24_Witness ==
    /\ pc = "dl_failed"
    /\ raised = "RuntimeError"
    /\ FullBagMode
    /\ dl_batch_size = 2
    /\ Len(batch) = 2
    /\ Len(batch[1][1]) # Len(batch[2][1])

\* The items a pass has yielded, batch after batch.
PassItems == concat(yielded)

\* The item is the triple of patient i: instances of the files of its bag,
\* as many as are its own, and its encoded target.
ItemOf(triple, i) ==
    /\ triple[3] = float(ds_ground_truths[i])
    /\ triple[2] = IF Truthy(ds_bag_size)
                   THEN Min(ds_bag_size[1], StoredInstances(ds_bags[i]))
                   ELSE StoredInstances(ds_bags[i])
    /\ \A r \in 1..triple[2] : triple[1][r] \in InstancesOf(ds_bags[i])

PassEnded == pc = "dl_idle" /\ passes > 0

\* C25: a pass that ends has yielded every patient exactly once, as the
\* triple of its bag, its true count and its target, in batches of
\* batch_size (the last may be smaller); without shuffling the patients come
\* in their order, and every pass started after one has ended does the same.
C25_EveryPatientOncePerPass ==
    /\ \A k, l \in 1..Len(PassItems \o batch) :
           k # l => (PassItems \o batch)[k][3] # (PassItems \o batch)[l][3]
    /\ PassEnded =>
           /\ Len(PassItems) = Len(ds_bags)
           /\ \A i \in 1..Len(ds_bags) :
                  Cardinality({k \in 1..Len(PassItems) : ItemOf(PassItems[k], i)}) = 1
           /\ ~dl_shuffle => \A i \in 1..Len(ds_bags) : ItemOf(PassItems[i], i)
           /\ \A b \in 1..Len(yielded) :
                  /\ Len(yielded[b]) <= dl_batch_size
                  /\ b < Len(yielded) => Len(yielded[b]) = dl_batch_size

\* The second pass over a shuffled loader has ended; it yielded the second
\* patient first, both patients having instances.
C25_Witness ==
    /\ PassEnded
    /\ passes = 2
    /\ dl_shuffle
    /\ Len(PassItems) = 2
    /\ ItemOf(PassItems[1], 2)
    /\ PassItems[1][2] > 0
    /\ PassItems[2][2] > 0

\* ------------------------------------------------------------------ specification: loader workers

\* The worker processes of a DataLoader with num_workers = 2.
Workers == {1, 2}

\* A dataset of two patients whose indices are handed to the workers; each
\* worker runs __getitem__ with locals of its own.
InitWorkers ==
    /\ NotReconciling
    /\ NoBag
    /\ NoTraining
    /\ NoTables
    /\ NoLoader
    /\ archives \in [Files -> Archives]
    /\ ds_bags \in DatasetBags
    /\ ds_bag_size \in Optional(0..MaxBagSize)
    /\ ds_ground_truths = <<<<TRUE, FALSE>>, <<FALSE, TRUE>>>>
    /\ index = 0
    /\ files_left = <<>>
    /\ open_files = {}
    /\ feats = <<>>
    /\ item = <<>>
    /\ todo = [i \in 1..Len(ds_bags) |-> i]
    /\ w_pc = [w \in Workers |-> "idle"]
    /\ w_index = [w \in Workers |-> 0]
    /\ w_files_left = [w \in Workers |-> <<>>]
    /\ w_open = [w \in Workers |-> {}]
    /\ w_feats = [w \in Workers |-> <<>>]
    /\ done = <<>>
    /\ pc = "workers"

notWorkerVars ==
    <<reconcileState, bagVars, datasetVars, trainVars, tableVars, loaderVars, pc>>

\* A worker is handed the next index and enters __getitem__: feats = [].
WorkerGetItem(w) ==
    /\ w_pc[w] = "idle"
    /\ todo # <<>>
    /\ todo' = Tail(todo)
    /\ w_index' = [w_index EXCEPT ![w] = Head(todo)]
    /\ \E order \in Orders(ds_bags[Head(todo)]) :
         w_files_left' = [w_files_left EXCEPT ![w] = order]
    /\ w_feats' = [w_feats EXCEPT ![w] = <<>>]
    /\ w_pc' = [w_pc EXCEPT ![w] = "loop"]
    /\ UNCHANGED <<w_open, done, raised, notWorkerVars>>

\* `with h5py.File(bag_file, "r") as f` in a worker.
WorkerOpenFile(w) ==
    /\ w_pc[w] = "loop"
    /\ w_files_left[w] # <<>>
    /\ IF archives[Head(w_files_left[w])].kind = "unreadable"
       THEN /\ raised' = "OSError"
            /\ w_pc' = [w_pc EXCEPT ![w] = "failed"]
            /\ UNCHANGED w_open
       ELSE /\ w_open' = [w_open EXCEPT ![w] = @ \cup {Head(w_files_left[w])}]
            /\ w_pc' = [w_pc EXCEPT ![w] = "reading"]
            /\ UNCHANGED raised
    /\ UNCHANGED <<todo, w_index, w_files_left, w_feats, done, notWorkerVars>>

\* Mutant: one list of tensors for all the workers.
WorkerReadFeatsShared(w) ==
    /\ w_pc[w] = "reading"
    /\ w_open' = [w_open EXCEPT ![w] = @ \ {Head(w_files_left[w])}]
    /\ IF archives[Head(w_files_left[w])].kind = "no_feats"
       THEN /\ raised' = "KeyError"
            /\ w_pc' = [w_pc EXCEPT ![w] = "failed"]
            /\ UNCHANGED <<w_feats, w_files_left>>
       ELSE /\ w_feats' = [v \in Workers |->
                              Append(w_feats[v], feats_of(Head(w_files_left[w])))]
            /\ w_files_left' = [w_files_left EXCEPT ![w] = Tail(@)]
            /\ w_pc' = [w_pc EXCEPT ![w] = "loop"]
            /\ UNCHANGED raised
    /\ UNCHANGED <<todo, w_index, done, notWorkerVars>>

\* The body and the exit of the `with` block in a worker.
WorkerReadFeats(w) ==
    /\ w_pc[w] = "reading"
    /\ w_open' = [w_open EXCEPT ![w] = @ \ {Head(w_files_left[w])}]
    /\ IF archives[Head(w_files_left[w])].kind = "no_feats"
       THEN /\ raised' = "KeyError"
            /\ w_pc' = [w_pc EXCEPT ![w] = "failed"]
            /\ UNCHANGED <<w_feats, w_files_left>>
       ELSE /\ w_feats' = [w_feats EXCEPT ![w] =
                              Append(@, feats_of(Head(w_files_left[w])))]
            /\ w_files_left' = [w_files_left EXCEPT ![w] = Tail(@)]
            /\ w_pc' = [w_pc EXCEPT ![w] = "loop"]
            /\ UNCHANGED raised
    /\ UNCHANGED <<todo, w_index, done, notWorkerVars>>

\* The end of __getitem__ in a worker: the item goes to the main process
\* and the worker is free for the next index.
WorkerReturnItem(w) ==
    /\ w_pc[w] = "loop"
    /\ w_files_left[w] = <<>>
    /\ IF w_feats[w] = <<>>
       THEN /\ raised' = "RuntimeError"
            /\ w_pc' = [w_pc EXCEPT ![w] = "failed"]
            /\ UNCHANGED done
       ELSE /\ IF Truthy(ds_bag_size)
               THEN \E perm \in randperm(Len(concat(w_feats[w]))) :
                      LET r == to_fixed_size_bag(
                                   concat(w_feats[w]), ds_bag_size[1], perm)
                      IN  done' = Append(done,
                                      <<r.zero_padded, r.true_count,
                                        float(ds_ground_truths[w_index[w]])>>)
               ELSE done' = Append(done,
                                <<concat(w_feats[w]), Len(concat(w_feats[w])),
                                  float(ds_ground_truths[w_index[w]])>>)
            /\ w_pc' = [w_pc EXCEPT ![w] = "idle"]
            /\ UNCHANGED raised
    /\ UNCHANGED <<todo, w_index, w_files_left, w_open, w_feats, notWorkerVars>>

NextWorkers ==
    \E w \in Workers :
        \/ WorkerGetItem(w)
        \/ WorkerOpenFile(w)
        \/ WorkerReadFeats(w)
        \/ WorkerReturnItem(w)

SpecWorkers == InitWorkers /\ [][NextWorkers]_vars

\* ------------------------------------------------------------------ claims: loader workers

\* The instances stored in a set of feature files.
StoredIn(files) ==
    UNION {Range(feats_of(f)) : f \in {g \in files : archives[g].kind = "readable"}}

\* The rows are these instances, each of them once.
EachOnce(rows, instances) ==
    /\ Len(rows) = Cardinality(instances)
    /\ Range(rows) = instances

\* C26: whatever the interleaving of the workers, what a worker has
\* collected is made of the instances of the files it has read of the bag of
\* its own patient, each once, and a finished item holds the instances of one
\* patient only, all of them when no bag size is set, with the target of that
\* patient; no patient is finished twice, in whatever order they finish.
C26_BagsOfOnePatient ==
    /\ \A w \in Workers :
           w_pc[w] # "idle" =>
               /\ w_index[w] \in 1..Len(ds_bags)
               /\ EachOnce(concat(w_feats[w]),
                      StoredIn(ds_bags[w_index[w]] \ Range(w_files_left[w])))
    /\ \A k \in 1..Len(done) :
           \E i \in 1..Len(ds_bags) :
               /\ done[k][3] = float(ds_ground_truths[i])
               /\ \A r \in 1..done[k][2] : done[k][1][r] \in StoredIn(ds_bags[i])
               /\ ~Truthy(ds_bag_size) => EachOnce(done[k][1], StoredIn(ds_bags[i]))
               /\ Truthy(ds_bag_size) =>
                      done[k][2] = Min(ds_bag_size[1], Cardinality(StoredIn(ds_bags[i])))
    /\ \A k, l \in 1..Len(done) : k # l => done[k][3] # done[l][3]

\* Both workers were reading at once, and the bag of the second patient was
\* finished before the bag of the first.
C26_Witness ==
    /\ Len(done) = 2
    /\ done[1][3] = float(ds_ground_truths[2])
    /\ done[1][2] > 0
    /\ done[2][2] > 0
    /\ w_index[1] # w_index[2]
    /\ w_index[1] # 0
    /\ w_index[2] # 0

\* ------------------------------------------------------------------ specification: reconciliation and bag access

\* A reconciliation, a call of _to_fixed_size_bag, or a loader that goes
\* through its dataset more than once.
InitReadOnly == Init \/ InitBag \/ InitLoader

NextReadOnly == Next \/ NextBag \/ NextLoader

SpecReadOnly == InitReadOnly /\ [][NextReadOnly]_vars

\* ------------------------------------------------------------------ claims: read-only

\* C27: reconciliation and bag access only read: no step of
\* filter_complete_patient_data_, __getitem__ or _to_fixed_size_bag changes
\* what is on disk or in a feature file, the mappings passed in, the tensor
\* passed in, or the bags, ground truths and bag size of the dataset; and no
\* bag is kept between accesses: every call of __getitem__ starts with no
\* tensors and returns after reading every file of the bag in that call.
C27_ReadOnlyAndUncached ==
    /\ [][/\ disk' = disk
          /\ archives' = archives
          /\ patient_to_ground_truth' = patient_to_ground_truth
          /\ slide_to_patient' = slide_to_patient
          /\ drop_patients_with_missing_ground_truth'
                 = drop_patients_with_missing_ground_truth
          /\ bag' = bag
          /\ bag_size' = bag_size
          /\ ds_bags' = ds_bags
          /\ ds_ground_truths' = ds_ground_truths
          /\ ds_bag_size' = ds_bag_size]_vars
    /\ [][(pc = "dl_fetch" /\ pc' = "ds_loop") =>
              (feats' = <<>> /\ item' = <<>>)]_vars
    /\ [](pc = "ds_returned" =>
              /\ Len(feats) = Cardinality(ds_bags[index])
              /\ EachOnce(concat(feats), StoredIn(ds_bags[index])))

\* In a second pass over the loader a bag that the first pass returned has
\* been read from its file again and returned.
C27_Witness ==
    /\ pc = "ds_returned"
    /\ passes = 1
    /\ Len(feats) = 1
    /\ Len(concat(feats)) > 0
    /\ item # <<>>

\* ------------------------------------------------------------------ specification: train_categorical_model_

\* Patients of one class in the tables of a run.
CohortSizes == {0, 20, 22}

PatientId(i) == "P" \o ToString(i)

Filename(i) == <<"slide" \o ToString(i) \o ".h5">>

\* The `categories` a run may be configured with.
RunCategories ==
    {<<"A">>, <<"A", "B">>, <<"B", "A">>, <<"A", "B", "C">>}

\* What may be wrong with the tables of a run.
TableDefects ==
    {"none", "clini_repeated", "slide_repeated", "clini_no_column",
     "slide_no_column"}

\* The clinical table of a cohort: a row for each patient, the first patient
\* once more when the patient column repeats, no ground truth column when
\* that is the defect.
clini_table_of(labels, defect) ==
    LET columns == IF defect = "clini_no_column" THEN {patient_label}
                   ELSE {patient_label, ground_truth_label}
        of(i) == IF i > Len(labels) THEN 1 ELSE i
        n == IF defect = "clini_repeated" THEN Len(labels) + 1 ELSE Len(labels)
    IN  [columns |-> columns,
         rows |-> [i \in 1..n |->
                     [c \in columns |->
                        IF c = patient_label THEN PatientId(of(i))
                        ELSE labels[of(i)]]]]

\* The slide table of a cohort: one slide of each patient, the first slide
\* once more when the filename column repeats, no filename column when that
\* is the defect.
slide_table_of(labels, defect) ==
    LET columns == IF defect = "slide_no_column" THEN {patient_label}
                   ELSE {patient_label, filename_label}
        of(i) == IF i > Len(labels) THEN 1 ELSE i
        n == IF defect = "slide_repeated" THEN Len(labels) + 1 ELSE Len(labels)
    IN  [columns |-> columns,
         rows |-> [i \in 1..n |->
                     [c \in columns |->
                        IF c = patient_label THEN PatientId(of(i))
                        ELSE Filename(of(i))]]]

\* train_categorical_model_ is called: tables of a cohort of up to two
\* classes out of three, every feature file on disk and readable but perhaps the first.
InitRun ==
    /\ NoLoader
    /\ NoWorkers
    /\ NoBag
    /\ NoDataset
    /\ NotSplit
    /\ \E totals \in [1..3 -> CohortSizes], defect \in TableDefects :
         LET classes == {LabelOrder[r] : r \in {q \in 1..3 : totals[q] > 0}}
             labels == by_class(classes, [label \in classes |-> totals[Rank(label)]])
             paths == {FeaturePath(Filename(i)) : i \in 1..Len(labels)}
         IN  /\ Cardinality(classes) <= 2
             /\ labels = <<>> => defect \notin {"clini_repeated", "slide_repeated"}
             /\ clini_table = clini_table_of(labels, defect)
             /\ slide_table = slide_table_of(labels, defect)
             /\ \E first \in FileStates :
                    disk = [path \in paths |->
                              IF path = FeaturePath(Filename(1)) THEN first
                              ELSE "readable"]
    /\ categories_arg \in Optional(RunCategories)
    /\ patient_labels = <<>>
    /\ patient_to_ground_truth = <<>>
    /\ slide_to_patient = <<>>
    /\ drop_patients_with_missing_ground_truth = TRUE
    /\ patients = <<>>
    /\ log = <<>>
    /\ ground_truths = <<>>
    /\ pc = "load_clini"

\* train_test_split returns a split of these labels: there is a training
\* sample, no class has one member only, and neither split has fewer
\* samples than there are classes.
can_split(stratify) ==
    LET n == Len(stratify)
        counts == class_counts(stratify)
    IN  /\ n - n_test_of(n) >= 1
        /\ \A label \in Range(stratify) : counts[label] >= 2
        /\ n - n_test_of(n) >= Cardinality(Range(stratify))
        /\ n_test_of(n) >= Cardinality(Range(stratify))

\* The samples that are among the first n_i[label] of their class.
first_of_each_class(stratify, n_i) ==
    {i \in 1..Len(stratify) :
        Cardinality({j \in 1..i : stratify[j] = stratify[i]}) <= n_i[stratify[i]]}

\* train_test_split(list(patient_to_data), stratify=ground_truths,
\* random_state=0) on the patients the filter returned, the i-th of them
\* being patient i: of the splits with as many training patients of each
\* class as approximate_mode allots, the one that trains on the first
\* patients of each class.
SplitFiltered ==
    /\ pc = "labelled"
    /\ raised = "none"
    /\ patient_labels' = ground_truths
    /\ IF ~can_split(ground_truths)
       THEN /\ raised' = "ValueError"
            /\ error' = [message |-> "train_test_split", args |-> <<>>]
            /\ pc' = "train_failed"
            /\ UNCHANGED <<train_patients, valid_patients>>
       ELSE /\ \E n_i \in approximate_mode(
                              class_counts(ground_truths),
                              Len(ground_truths) - n_test_of(Len(ground_truths))) :
                 LET train == first_of_each_class(ground_truths, n_i)
                 IN  /\ train_patients' = Ascending(train)
                     /\ valid_patients' =
                            Ascending((1..Len(ground_truths)) \ train)
            /\ pc' = "loaders"
            /\ UNCHANGED <<raised, error>>
    /\ UNCHANGED <<categories_arg, categories, train_targets, valid_targets,
                   batches_read, category_counts, category_weights, model,
                   otherVars>>

NextRun ==
    \/ LoadCliniTable \/ LoadSlideTable \/ Filter \/ StratifyLabels
    \/ SplitFiltered \/ MakeLoaders \/ CheckOverlap \/ FirstBatch \/ Gate
    \/ TrainModel

SpecRun == InitRun /\ [][NextRun]_vars

\* ------------------------------------------------------------------ claims: train_categorical_model_

\* The run has ended with an exception.
RunFailed == pc \in {"clini_failed", "slide_failed", "train_failed"}

\* The model is being constructed, or has been and was fitted and saved.
TrainingReached == pc \in {"construct", "trained"} \/ model # <<>>

\* C21: in every run of train_categorical_model_ the model is constructed,
\* fitted and saved only when no key is repeated in the clinical or the
\* slide table, no patient is in both splits, there are at least two
\* categories and each of them has 16 training patients or more; a run in
\* which one of the checks fails ends with an exception, and after that
\* nothing is trained or saved.
C21_ChecksPassBeforeTraining ==
    /\ [](TrainingReached =>
              /\ raised = "none"
              /\ ~Repeated(clini_table, patient_label)
              /\ ~Repeated(slide_table, filename_label)
              /\ Range(train_patients) \cap Range(valid_patients) = {}
              /\ Len(categories) >= 2
              /\ \A c \in 1..Len(categories) : category_counts[c] >= MinSamples)
    /\ []((\/ Repeated(clini_table, patient_label)
           \/ Repeated(slide_table, filename_label))
              => pc \in {"load_clini", "load_slide", "clini_failed", "slide_failed"})
    /\ [](RunFailed => raised # "none" /\ model = <<>>)
    /\ [][RunFailed => pc' = pc /\ model' = model]_vars
    /\ [][model' # model => pc = "construct"]_vars

\* A cohort of two classes, 22 patients each, has gone through every check:
\* the model has been constructed, fitted and saved, one of the classes
\* having just the 16 training patients it needs.
C21_Witness ==
    /\ pc = "trained"
    /\ model # <<>>
    /\ Len(clini_table.rows) = 44
    /\ Len(patients) = 44
    /\ Len(categories) = 2
    /\ \E c \in 1..2 : category_counts[c] = MinSamples

====
